---- MODULE Spec2Model ----
(***************************************************************************)
(* Model of aws-assume-role: the role configuration store (src/config),    *)
(* its JSON persistence, and the command line front end (src/cli) with the *)
(* STS client it drives (src/aws).                                         *)
(***************************************************************************)
EXTENDS Integers, Sequences, FiniteSets, TLC

VARIABLES
    config,     \* the Config value held by the running process
    file,       \* <home>/.aws-assume-role/config.json as it is on disk
    home,       \* whether dirs::home_dir() resolves in this environment
    ret,        \* the last call made on the store and what it returned
    origin,     \* history: how the current Config value was constructed
    last,       \* history: per name, the last add_role / successful remove_role
                \* made on the current Config value
    cli,        \* the command line invocation in progress: where Cli::run
                \* stands, its parsed arguments and locals, its result
    calls,      \* requests the invocation has sent to STS, in order
    out,        \* lines the invocation has printed, in order
    peer        \* a second invocation running at the same time on the same
                \* config file, with a Config value of its own

storeVars == <<config, file, home, ret, origin, last>>
cliVars == <<cli, calls, out, peer>>
vars == <<config, file, home, ret, origin, last, cli, calls, out, peer>>

----------------------------------------------------------------------------
(* Bounds and value universes                                              *)

\* Longest role list the driver builds by appending.
MaxRoles == 3

\* "dev" and "Dev" differ only in letter case.
Names == {"dev", "Dev", "prod"}
AccountId == "123456789012"

\* Option<T>: None is the empty sequence, Some(x) the one-element sequence.
None == <<>>
Some(x) == <<x>>
IsSome(o) == o # None
Unwrap(o) == o[1]

RoleConfig(n, a, sp, sd) ==
    [name |-> n, role_arn |-> a, account_id |-> AccountId,
     source_profile |-> sp, session_duration |-> sd]

\* RoleConfig values handed to add_role: "dev" with either ARN, and between
\* them every combination of present and absent optional fields.
RoleInputs ==
    {RoleConfig("dev", "arn:aws:iam::123456789012:role/DevRole", None, None),
     RoleConfig("dev", "arn:aws:iam::123456789012:role/TestRole2", Some("default"), Some(7200)),
     RoleConfig("Dev", "arn:aws:iam::123456789012:role/DevRole", None, Some(900)),
     RoleConfig("prod", "arn:aws:iam::123456789012:role/TestRole2", Some("default"), None)}

\* Names asked for by get_role / remove_role: the names that can be added and
\* one that never is.
NameInputs == Names \cup {"non-existent"}

----------------------------------------------------------------------------
(* Config                                                                  *)

\* Config::new
new ==
    [default_profile |-> None, sso_start_url |-> None, sso_region |-> None,
     roles |-> <<>>]

\* roles.iter().position(|r| r.name == name): index of the first match, 0 if none
position(roles, name) ==
    IF \E i \in DOMAIN roles : roles[i].name = name
    THEN CHOOSE i \in DOMAIN roles :
            /\ roles[i].name = name
            /\ \A j \in DOMAIN roles : roles[j].name = name => i <= j
    ELSE 0

\* Vec::remove(pos)
RemoveAt(s, pos) == [i \in 1..(Len(s) - 1) |-> IF i < pos THEN s[i] ELSE s[i + 1]]

\* add_role without the lookup: always push
add_role_push(cfg, role) == [cfg EXCEPT !.roles = Append(@, role)]

\* add_role looking the definition up by ARN instead of by name
add_role_by_arn(cfg, role) ==
    IF \E i \in DOMAIN cfg.roles : cfg.roles[i].role_arn = role.role_arn
    THEN LET i == CHOOSE i \in DOMAIN cfg.roles :
                    cfg.roles[i].role_arn = role.role_arn
         IN  [cfg EXCEPT !.roles[i] = role]
    ELSE [cfg EXCEPT !.roles = Append(@, role)]

\* add_role that drops the old definition and pushes the new one
add_role_move(cfg, role) ==
    LET i == position(cfg.roles, role.name) IN
    IF i # 0
    THEN [cfg EXCEPT !.roles = Append(RemoveAt(@, i), role)]
    ELSE [cfg EXCEPT !.roles = Append(@, role)]

\* Config::add_role
add_role(cfg, role) ==
    LET i == position(cfg.roles, role.name) IN
    IF i # 0
    THEN [cfg EXCEPT !.roles[i] = role]
    ELSE [cfg EXCEPT !.roles = Append(@, role)]

\* str::to_lowercase on the names and prompt answers in use
to_lowercase(s) ==
    IF s = "Dev" THEN "dev"
    ELSE IF s \in {"YES", "Yes"} THEN "yes"
    ELSE IF s = "Y" THEN "y"
    ELSE s

\* get_role comparing names without regard to case
get_role_ignore_case(cfg, name) ==
    IF \E i \in DOMAIN cfg.roles : to_lowercase(cfg.roles[i].name) = to_lowercase(name)
    THEN Some(cfg.roles[CHOOSE i \in DOMAIN cfg.roles :
                /\ to_lowercase(cfg.roles[i].name) = to_lowercase(name)
                /\ \A j \in 1..(i - 1) :
                      to_lowercase(cfg.roles[j].name) # to_lowercase(name)])
    ELSE None

\* Config::get_role
get_role(cfg, name) ==
    LET i == position(cfg.roles, name) IN
    IF i # 0 THEN Some(cfg.roles[i]) ELSE None

\* remove_role written with retain(): drops every definition of that name
remove_role_retain(cfg, name) ==
    [cfg |-> [cfg EXCEPT !.roles = SelectSeq(@, LAMBDA r : r.name # name)],
     removed |-> position(cfg.roles, name) # 0]

\* remove_role that takes out the last definition of that name
remove_role_last(cfg, name) ==
    IF \E i \in DOMAIN cfg.roles : cfg.roles[i].name = name
    THEN LET pos == CHOOSE i \in DOMAIN cfg.roles :
                        /\ cfg.roles[i].name = name
                        /\ \A j \in (i + 1)..Len(cfg.roles) : cfg.roles[j].name # name
         IN  [cfg |-> [cfg EXCEPT !.roles = RemoveAt(@, pos)], removed |-> TRUE]
    ELSE [cfg |-> cfg, removed |-> FALSE]

\* Config::remove_role: the store afterwards and the returned flag
remove_role(cfg, name) ==
    LET pos == position(cfg.roles, name) IN
    IF pos # 0
    THEN [cfg |-> [cfg EXCEPT !.roles = RemoveAt(@, pos)], removed |-> TRUE]
    ELSE [cfg |-> cfg, removed |-> FALSE]

----------------------------------------------------------------------------
(* JSON text.  A document is a value tree; object members keep their order *)
(* and may repeat a key, as in the text.                                   *)

JNull == [t |-> "null", v |-> <<>>]
JStr(s) == [t |-> "string", v |-> <<s>>]
JNum(n) == [t |-> "number", v |-> <<n>>]
JArr(s) == [t |-> "array", v |-> s]
JObj(m) == [t |-> "object", v |-> m]
\* text that is not a JSON value at all (empty, truncated, garbage)
JInvalid == [t |-> "invalid", v |-> <<>>]

ConfigFields == <<"default_profile", "sso_start_url", "sso_region", "roles">>
RoleFields == <<"name", "role_arn", "account_id", "source_profile", "session_duration">>

\* Serialize for Option<String> / Option<i64>
ser_opt_string(o) == IF IsSome(o) THEN JStr(Unwrap(o)) ELSE JNull
ser_opt_i64(o) == IF IsSome(o) THEN JNum(Unwrap(o)) ELSE JNull

\* RoleConfig serialized with #[serde(rename_all = "camelCase")]
ser_role_camel_case(r) ==
    JObj(<< <<"name", JStr(r.name)>>,
            <<"roleArn", JStr(r.role_arn)>>,
            <<"accountId", JStr(r.account_id)>>,
            <<"sourceProfile", ser_opt_string(r.source_profile)>>,
            <<"sessionDuration", ser_opt_i64(r.session_duration)>> >>)

\* #[derive(Serialize)] for RoleConfig
ser_role(r) ==
    JObj(<< <<"name", JStr(r.name)>>,
            <<"role_arn", JStr(r.role_arn)>>,
            <<"account_id", JStr(r.account_id)>>,
            <<"source_profile", ser_opt_string(r.source_profile)>>,
            <<"session_duration", ser_opt_i64(r.session_duration)>> >>)

\* serde_json::to_string_pretty(self) with #[derive(Serialize)] for Config
to_string_pretty(cfg) ==
    JObj(<< <<"default_profile", ser_opt_string(cfg.default_profile)>>,
            <<"sso_start_url", ser_opt_string(cfg.sso_start_url)>>,
            <<"sso_region", ser_opt_string(cfg.sso_region)>>,
            <<"roles", JArr([i \in DOMAIN cfg.roles |-> ser_role(cfg.roles[i])])>> >>)

\* Members of an object that carry key k
Occ(obj, k) == {i \in DOMAIN obj.v : obj.v[i][1] = k}
HasKey(obj, k) == Occ(obj, k) # {}
Member(obj, k) == obj.v[CHOOSE i \in Occ(obj, k) : TRUE][2]

\* A struct may also be written as an array of its fields in declaration
\* order (visit_seq); it must have exactly one element per field.
AsStruct(j, fields) ==
    IF j.t = "array" /\ Len(j.v) = Len(fields)
    THEN JObj([i \in DOMAIN fields |-> <<fields[i], j.v[i]>>])
    ELSE j

\* Deserialize for String, Option<String>, Option<i64>
ok_string(j) == j.t = "string"
ok_opt_string(j) == j.t \in {"null", "string"}
ok_opt_i64(j) == j.t \in {"null", "number"}
de_opt(j) == IF j.t = "null" THEN None ELSE Some(j.v[1])

\* A derived struct accepts an object in which no field is repeated
\* (duplicate_field) and every required field is present (missing_field);
\* keys that are not fields are ignored, absent Option fields are None.
ok_struct(obj, fields, required) ==
    /\ obj.t = "object"
    /\ \A i \in DOMAIN fields : Cardinality(Occ(obj, fields[i])) <= 1
    /\ \A k \in required : HasKey(obj, k)

opt_member(obj, k) == IF HasKey(obj, k) THEN de_opt(Member(obj, k)) ELSE None

\* #[derive(Deserialize)] for RoleConfig
ok_role(j) ==
    LET obj == AsStruct(j, RoleFields) IN
    /\ ok_struct(obj, RoleFields, {"name", "role_arn", "account_id"})
    /\ ok_string(Member(obj, "name"))
    /\ ok_string(Member(obj, "role_arn"))
    /\ ok_string(Member(obj, "account_id"))
    /\ HasKey(obj, "source_profile") => ok_opt_string(Member(obj, "source_profile"))
    /\ HasKey(obj, "session_duration") => ok_opt_i64(Member(obj, "session_duration"))

de_role(j) ==
    LET obj == AsStruct(j, RoleFields) IN
    [name |-> Member(obj, "name").v[1],
     role_arn |-> Member(obj, "role_arn").v[1],
     account_id |-> Member(obj, "account_id").v[1],
     source_profile |-> opt_member(obj, "source_profile"),
     session_duration |-> opt_member(obj, "session_duration")]

\* #[derive(Deserialize)] for Config
ok_config(j) ==
    LET obj == AsStruct(j, ConfigFields) IN
    /\ ok_struct(obj, ConfigFields, {"roles"})
    /\ HasKey(obj, "default_profile") => ok_opt_string(Member(obj, "default_profile"))
    /\ HasKey(obj, "sso_start_url") => ok_opt_string(Member(obj, "sso_start_url"))
    /\ HasKey(obj, "sso_region") => ok_opt_string(Member(obj, "sso_region"))
    /\ Member(obj, "roles").t = "array"
    /\ \A i \in DOMAIN Member(obj, "roles").v : ok_role(Member(obj, "roles").v[i])

de_config(j) ==
    LET obj == AsStruct(j, ConfigFields)
        rs == Member(obj, "roles").v
    IN  [default_profile |-> opt_member(obj, "default_profile"),
         sso_start_url |-> opt_member(obj, "sso_start_url"),
         sso_region |-> opt_member(obj, "sso_region"),
         roles |-> [i \in DOMAIN rs |-> de_role(rs[i])]]

\* Result<T, AppError>
Ok(x) == [ok |-> TRUE, val |-> <<x>>, err |-> "none"]
Err(e) == [ok |-> FALSE, val |-> <<>>, err |-> e]

\* from_str that answers a document it cannot use with an empty store
from_str_or_default(content) ==
    IF ok_config(content) THEN Ok(de_config(content)) ELSE Ok(new)

\* serde_json::from_str::<Config>(&content)
from_str(content) == IF ok_config(content) THEN Ok(de_config(content)) ELSE Err("parse")

----------------------------------------------------------------------------
(* The persisted file                                                      *)

NoFile == [kind |-> "absent", content |-> JInvalid]
\* exists, but read_to_string fails (no read permission, not UTF-8)
Unreadable == [kind |-> "unreadable", content |-> JInvalid]
Text(doc) == [kind |-> "text", content |-> doc]

\* Config::get_config_path
get_config_path(h) == IF h THEN Ok("config.json") ELSE Err("ConfigError")

\* load without the exists() test: a missing file is a read error
load_no_exists_test(h, f) ==
    IF ~get_config_path(h).ok THEN Err("ConfigError")
    ELSE IF f.kind \in {"absent", "unreadable"} THEN Err("ConfigError")
    ELSE LET parsed == from_str(f.content) IN
         IF parsed.ok THEN parsed ELSE Err("ConfigError")

\* Config::load
load(h, f) ==
    IF ~get_config_path(h).ok THEN Err("ConfigError")
    ELSE IF f.kind = "absent" THEN Ok(new)
    ELSE IF f.kind = "unreadable" THEN Err("ConfigError")
    ELSE LET parsed == from_str(f.content) IN
         IF parsed.ok THEN parsed ELSE Err("ConfigError")

\* What the file system lets save() do: "ok"; "mkdir" (create_dir_all
\* fails); "create" (fs::write cannot open the file); "write" (fs::write
\* opened and truncated the file and then failed part way).
FsOutcomes == {"ok", "mkdir", "create", "write"}

\* save that leaves an existing file alone and still reports success
save_keep_existing(cfg, h, f, fs) ==
    IF ~get_config_path(h).ok THEN [res |-> Err("ConfigError"), file |-> f]
    ELSE IF fs = "mkdir" THEN [res |-> Err("ConfigError"), file |-> f]
    ELSE IF fs = "create" THEN [res |-> Err("ConfigError"), file |-> f]
    ELSE IF fs = "write" THEN [res |-> Err("ConfigError"), file |-> Text(JInvalid)]
    ELSE IF f.kind # "absent" THEN [res |-> Ok("unit"), file |-> f]
    ELSE [res |-> Ok("unit"), file |-> Text(to_string_pretty(cfg))]

\* save that keeps the roles of the file that the store does not name
save_merge(cfg, h, f, fs) ==
    IF ~get_config_path(h).ok THEN [res |-> Err("ConfigError"), file |-> f]
    ELSE IF fs = "mkdir" THEN [res |-> Err("ConfigError"), file |-> f]
    ELSE IF fs = "create" THEN [res |-> Err("ConfigError"), file |-> f]
    ELSE IF fs = "write" THEN [res |-> Err("ConfigError"), file |-> Text(JInvalid)]
    ELSE LET old == IF f.kind = "text" /\ from_str(f.content).ok
                    THEN from_str(f.content).val[1].roles ELSE <<>>
             kept == SelectSeq(old, LAMBDA r : position(cfg.roles, r.name) = 0)
         IN  [res |-> Ok("unit"),
              file |-> Text(to_string_pretty([cfg EXCEPT !.roles = @ \o kept]))]

\* Config::save: the Result and the file afterwards
save(cfg, h, f, fs) ==
    IF ~get_config_path(h).ok THEN [res |-> Err("ConfigError"), file |-> f]
    ELSE IF fs = "mkdir" THEN [res |-> Err("ConfigError"), file |-> f]
    ELSE IF fs = "create" THEN [res |-> Err("ConfigError"), file |-> f]
    ELSE IF fs = "write" THEN [res |-> Err("ConfigError"), file |-> Text(JInvalid)]
    ELSE [res |-> Ok("unit"), file |-> Text(to_string_pretty(cfg))]

----------------------------------------------------------------------------
(* Calls on the store, as a caller of the library makes them               *)

Call(op, arg, result) == [op |-> op, arg |-> arg, result |-> result]

\* history values
Never == <<"never">>
Removed(count) == <<"removed", count>>     \* count: definitions of that name before the removal
Added(role) == <<"added", role>>
NoHistory == [n \in NameInputs |-> Never]

\* Number of definitions named n
Count(cfg, n) == Cardinality({i \in DOMAIN cfg.roles : cfg.roles[i].name = n})

\* add_role returns nothing; the call record keeps the definition it
\* overwrote, if any
Overwritten(cfg, role) ==
    IF \E i \in DOMAIN cfg.roles : cfg.roles[i].name = role.name
    THEN Some(cfg.roles[CHOOSE i \in DOMAIN cfg.roles :
                /\ cfg.roles[i].name = role.name
                /\ \A j \in 1..(i - 1) : cfg.roles[j].name # role.name])
    ELSE None

CallAddRole(role) ==
    /\ config' = add_role(config, role)
    /\ ret' = Call("add_role", <<role>>, Overwritten(config, role))
    /\ last' = [last EXCEPT ![role.name] = Added(role)]
    /\ UNCHANGED <<file, home, origin>>

CallGetRole(name) ==
    /\ ret' = Call("get_role", <<name>>, get_role(config, name))
    /\ UNCHANGED <<config, file, home, origin, last>>

CallRemoveRole(name) ==
    LET r == remove_role(config, name) IN
    /\ config' = r.cfg
    /\ ret' = Call("remove_role", <<name>>, <<r.removed>>)
    /\ last' = IF r.removed
               THEN [last EXCEPT ![name] = Removed(Count(config, name))] ELSE last
    /\ UNCHANGED <<file, home, origin>>

CallSave(fs) ==
    LET r == save(config, home, file, fs) IN
    /\ file' = r.file
    /\ ret' = Call("save", <<>>, <<r.res>>)
    /\ UNCHANGED <<config, home, origin, last>>

\* let config = Config::load()?  -- on Ok the caller holds a new Config value,
\* on Err it has none and keeps what it had
CallLoad ==
    LET r == load(home, file) IN
    /\ ret' = Call("load", <<>>, <<r>>)
    /\ IF r.ok
       THEN /\ config' = r.val[1]
            /\ origin' = IF file.kind = "absent" THEN "new" ELSE "file"
            /\ last' = NoHistory
       ELSE UNCHANGED <<config, origin, last>>
    /\ UNCHANGED <<file, home>>

\* The library driven directly, as the unit tests drive it.
AddRole(role) ==
    /\ position(config.roles, role.name) # 0 \/ Len(config.roles) < MaxRoles
    /\ CallAddRole(role)
    /\ UNCHANGED cliVars

GetRole(name) == CallGetRole(name) /\ UNCHANGED cliVars

RemoveRole(name) == CallRemoveRole(name) /\ UNCHANGED cliVars

Save(fs) == CallSave(fs) /\ UNCHANGED cliVars

Load == CallLoad /\ UNCHANGED cliVars

Next ==
    \/ \E role \in RoleInputs : AddRole(role)
    \/ \E name \in NameInputs : GetRole(name)
    \/ \E name \in NameInputs : RemoveRole(name)
    \/ \E fs \in FsOutcomes : Save(fs)
    \/ Load

\* The environment of an invocation: build target, shell detection
\* variables, and AWS credential variables already set by the caller.
Env(os, shell, ps, key, secret, token) ==
    [os |-> os, SHELL |-> shell, PSModulePath |-> ps,
     AWS_ACCESS_KEY_ID |-> key, AWS_SECRET_ACCESS_KEY |-> secret,
     AWS_SESSION_TOKEN |-> token]

PlainEnv == Env("unix", Some("/bin/bash"), None, None, None, None)
FishEnv == Env("unix", Some("/usr/bin/fish"), None, None, None, None)
PowerShellEnv == Env("windows", None, Some("C:\\Modules"), None, None, None)
CmdEnv == Env("windows", None, None, None, None, None)
\* the caller already holds credentials of an earlier session
StaleEnv == Env("unix", Some("/bin/bash"), None,
                Some("ASIASTALE"), Some("stalesecret"), Some("staletoken"))

\* Parsed arguments (clap) with the environment of the process; fields a
\* subcommand does not have keep a default
Command(kind) ==
    [kind |-> kind, name |-> "", role |-> RoleConfig("", "", None, None),
     duration |-> None, format |-> "export", exec |-> None,
     specific_role |-> None, verbose |-> FALSE, env |-> PlainEnv]

Configure(role) == [Command("configure") EXCEPT !.name = role.name, !.role = role]

Assume(name, duration, format, exec, env) ==
    [Command("assume") EXCEPT !.name = name, !.duration = duration,
                              !.format = format, !.exec = exec, !.env = env]

List == Command("list")

Remove(name) == [Command("remove") EXCEPT !.name = name]

Verify(role, verbose) ==
    [Command("verify") EXCEPT !.specific_role = role, !.verbose = verbose]

\* no command line invocation in progress.  tool, replies and answer keep
\* what the invocation was given from outside: the outcome of the
\* `aws --version` probe, the provider's reply to each request of `calls`,
\* and the line typed at the prompt.
NoCli ==
    [pc |-> "idle", cmd |-> Command("none"), exit |-> None, probe |-> "none",
     passed |-> TRUE, todo |-> <<>>, credentials |-> None, child |-> None,
     tool |-> None, replies |-> <<>>, answer |-> None]

\* no second invocation
NoPeer ==
    [pc |-> "idle", cmd |-> Command("none"), config |-> new, exit |-> None,
     out |-> <<>>]

InitProcess ==
    /\ peer = NoPeer
    /\ config = new
    /\ ret = Call("new", <<>>, <<>>)
    /\ origin = "new"
    /\ last = NoHistory
    /\ cli = NoCli
    /\ calls = <<>>
    /\ out = <<>>

\* A process that starts with no config file on disk.
Init ==
    /\ InitProcess
    /\ file = NoFile
    /\ home \in BOOLEAN

Spec == Init /\ [][Next]_vars

----------------------------------------------------------------------------
(* Config files that were not written by save(): edited by hand, damaged,  *)
(* or left by another tool.                                                *)

HandRole(n, a) ==
    JObj(<< <<"name", JStr(n)>>, <<"role_arn", JStr(a)>>,
            <<"account_id", JStr(AccountId)>> >>)

\* two definitions with the same name; the optional keys are left out
FileDuplicates ==
    Text(JObj(<< <<"roles",
        JArr(<<HandRole("dev", "arn:aws:iam::123456789012:role/DevRole"),
               HandRole("dev", "arn:aws:iam::123456789012:role/TestRole2")>>)>> >>))

\* profile and SSO metadata set, and a key the program does not know
FileMetadata ==
    Text(JObj(<< <<"default_profile", JStr("default")>>,
                 <<"sso_start_url", JNull>>,
                 <<"sso_region", JStr("us-east-1")>>,
                 <<"comment", JStr("edited by hand")>>,
                 <<"roles", JArr(<<HandRole("prod", "arn:aws:iam::123456789012:role/DevRole")>>)>> >>))

\* the struct written as an array of its fields
FilePositional == Text(JArr(<<JNull, JNull, JNull, JArr(<<>>)>>))

\* no "roles" member
FileNoRoles == Text(JObj(<< <<"default_profile", JNull>> >>))

\* session_duration written as a string
FileBadType ==
    Text(JObj(<< <<"roles", JArr(<<
        JObj(<< <<"name", JStr("dev")>>,
                <<"role_arn", JStr("arn:aws:iam::123456789012:role/DevRole")>>,
                <<"account_id", JStr(AccountId)>>,
                <<"session_duration", JStr("3600")>> >>)>>)>> >>))

\* "roles" given twice
FileRepeatedKey == Text(JObj(<< <<"roles", JArr(<<>>)>>, <<"roles", JArr(<<>>)>> >>))

\* an empty or truncated file
FileGarbage == Text(JInvalid)

GoodFiles == {FileDuplicates, FileMetadata, FilePositional}
BadFiles == {Unreadable, FileNoRoles, FileBadType, FileRepeatedKey, FileGarbage}

\* A process that finds a config file it did not write.
InitFile ==
    /\ InitProcess
    /\ file \in GoodFiles \cup BadFiles
    /\ home = TRUE

SpecFile == InitFile /\ [][Next]_vars

----------------------------------------------------------------------------
(* AwsClient                                                               *)

DefaultDuration == 3600
TestDuration == 900

\* A request as handed to the STS client
Request(api, arn, session, duration) ==
    [api |-> api, role_arn |-> arn, role_session_name |-> session,
     duration_seconds |-> duration]

\* aws_sdk_sts Credentials as the provider returns them
StsCredentials(ak, sk, tok, exp) ==
    [access_key_id |-> ak, secret_access_key |-> sk, session_token |-> tok,
     expiration |-> exp]

ProviderCredentials ==
    {StsCredentials(Some("ASIAEXAMPLE"), Some("wJalrEXAMPLEKEY"), Some("FwoGZXIvYXdzEXAMPLE"), Some(1700000000)),
     StsCredentials(Some("ASIAEXAMPLE"), Some("wJalrEXAMPLEKEY"), None, None),
     StsCredentials(Some("ASIAEXAMPLE"), Some("wJalrEXAMPLEKEY"), Some("FwoGZXIvYXdzEXAMPLE"), None),
     StsCredentials(None, Some("wJalrEXAMPLEKEY"), None, Some(-1))}

\* What .send().await returns: a response, or an error whose to_string()
\* is the given text (a sequence of fragments)
Sent(creds) == [ok |-> TRUE, credentials |-> creds, text |-> <<>>]
SendError(text) == [ok |-> FALSE, credentials |-> None, text |-> text]

ErrorTexts ==
    {<<"AccessDenied", ": User is not authorized to perform sts:AssumeRole">>,
     <<"service error: ", "Forbidden">>,
     <<"dispatch failure: ", "timeout">>,
     <<"ValidationError", ": invalid ARN">>,
     <<"Throttling">>}

AssumeRoleOutcomes ==
    {Sent(Some(c)) : c \in ProviderCredentials}
    \cup {Sent(None)}
    \cup {SendError(t) : t \in ErrorTexts}

\* str::contains on an error text
contains(text, pattern) == \E i \in DOMAIN text : text[i] = pattern

unwrap_or_default(o) == IF IsSome(o) THEN Unwrap(o) ELSE ""

\* AwsClient::new
AwsClient_new == Ok("AwsClient")

\* AwsClient::assume_role: the request it builds
assume_role_request(role_config, duration_seconds) ==
    LET duration == IF IsSome(duration_seconds)
                    THEN Unwrap(duration_seconds) ELSE DefaultDuration
    IN  Request("AssumeRole", role_config.role_arn, "aws-assume-role-session", duration)

\* assume_role that takes a response without credentials for empty ones
assume_role_default_credentials(role_config, duration_seconds, sent) ==
    IF ~sent.ok THEN Err("AwsError")
    ELSE LET credentials ==
                 IF IsSome(sent.credentials) THEN Unwrap(sent.credentials)
                 ELSE StsCredentials(None, None, None, None)
         IN  Ok([access_key_id |-> unwrap_or_default(credentials.access_key_id),
                 secret_access_key |-> unwrap_or_default(credentials.secret_access_key),
                 session_token |-> credentials.session_token,
                 expiration |-> credentials.expiration])

\* AwsClient::assume_role: its result, given what the request came back with
assume_role(role_config, duration_seconds, sent) ==
    IF ~sent.ok THEN Err("AwsError")
    ELSE IF ~IsSome(sent.credentials) THEN Err("AwsError")
    ELSE LET credentials == Unwrap(sent.credentials)
             expiration ==
                 IF IsSome(credentials.expiration)
                 THEN Some(IF Unwrap(credentials.expiration) < 0
                           THEN 0 ELSE Unwrap(credentials.expiration))
                 ELSE None
         IN  Ok([access_key_id |-> unwrap_or_default(credentials.access_key_id),
                 secret_access_key |-> unwrap_or_default(credentials.secret_access_key),
                 session_token |-> credentials.session_token,
                 expiration |-> expiration])

\* a test that asks for the role's own session duration
test_assume_role_request_own_duration(role_config) ==
    Request("AssumeRole", role_config.role_arn, "aws-assume-role-test",
            IF IsSome(role_config.session_duration)
            THEN Unwrap(role_config.session_duration) ELSE TestDuration)

\* AwsClient::test_assume_role: the request it builds
test_assume_role_request(role_config) ==
    Request("AssumeRole", role_config.role_arn, "aws-assume-role-test", TestDuration)

\* test_assume_role that takes every failure for a denial
test_assume_role_all_denied(role_config, sent) ==
    IF sent.ok THEN Ok(TRUE) ELSE Ok(FALSE)

\* AwsClient::test_assume_role: its result
test_assume_role(role_config, sent) ==
    IF sent.ok THEN Ok(TRUE)
    ELSE IF contains(sent.text, "AccessDenied") \/ contains(sent.text, "Forbidden")
    THEN Ok(FALSE)
    ELSE Err("AwsError")

\* What get_caller_identity().send().await returns
IdentityOutcomes ==
    {[ok |-> TRUE, account |-> Some(AccountId),
      arn |-> Some("arn:aws:iam::123456789012:user/operator"), user_id |-> None],
     [ok |-> FALSE, account |-> None, arn |-> None, user_id |-> None]}

\* AwsClient::verify_current_identity
verify_current_identity_request == Request("GetCallerIdentity", "", "", 0)

verify_current_identity(sent) ==
    IF ~sent.ok THEN Err("AwsError")
    ELSE Ok([account |-> unwrap_or_default(sent.account),
             arn |-> unwrap_or_default(sent.arn),
             user_id |-> unwrap_or_default(sent.user_id)])

\* What running `aws --version` comes to
AwsCliProbes == {"success", "failure", "not found"}

\* AwsClient::check_aws_cli
check_aws_cli(probe) == Ok(probe = "success")

----------------------------------------------------------------------------
(* The command line                                                        *)

\* An --exec argument is a sequence of words and runs of white space (" ")
AwsS3Ls == <<"aws", " ", "s3", " ", "ls">>
Blank == <<" ", " ">>

CommandInputs ==
    {Configure(role) : role \in RoleInputs}
    \cup {Assume("dev", None, "export", None, PlainEnv),
          Assume("dev", Some(1800), "json", None, PlainEnv),
          Assume("Dev", None, "export", None, FishEnv),
          Assume("prod", None, "export", None, PowerShellEnv),
          Assume("prod", Some(900), "text", None, CmdEnv),
          Assume("dev", None, "export", Some(AwsS3Ls), StaleEnv),
          Assume("prod", None, "json", Some(AwsS3Ls), PlainEnv),
          Assume("dev", None, "export", Some(Blank), PlainEnv),
          Assume("prod", None, "export", Some(<<>>), PlainEnv),
          Assume("non-existent", None, "export", None, PlainEnv)}
    \cup {List}
    \cup {Remove(name) : name \in NameInputs}
    \cup {Verify(None, FALSE), Verify(Some("dev"), TRUE),
          Verify(Some("non-existent"), FALSE)}

\* Lines typed at the "Save configuration anyway? (y/N): " prompt
PromptInputs == {"y", "Y", " YES ", "Yes", "n", "", "yes please"}

\* str::trim on the prompt inputs
trim(s) == IF s = " YES " THEN "YES" ELSE s

\* How the child process of --exec ends
ChildOutcomes == {"spawn failed", "exit 0", "exit 1"}

\* str::split_whitespace
split_whitespace(command) == SelectSeq(command, LAMBDA w : w # " ")

\* output_credentials_for_shell, "json" arm
json_lines(credentials) ==
    << <<"{">>,
       <<"AccessKeyId", credentials.access_key_id, ",">>,
       <<"SecretAccessKey", credentials.secret_access_key, ",">> >>
    \o (IF IsSome(credentials.session_token)
        THEN << <<"SessionToken", Unwrap(credentials.session_token), ",">> >>
        ELSE <<>>)
    \o (IF IsSome(credentials.expiration)
        THEN << <<"Expiration", ToString(Unwrap(credentials.expiration)), "">> >>
        ELSE <<>>)
    \o << <<"}">> >>

\* export_lines that prints the session token statement in every case
export_lines_always_token(prefix, echo, credentials, role_name) ==
    << <<prefix, "AWS_ACCESS_KEY_ID", credentials.access_key_id>>,
       <<prefix, "AWS_SECRET_ACCESS_KEY", credentials.secret_access_key>>,
       <<prefix, "AWS_SESSION_TOKEN", unwrap_or_default(credentials.session_token)>>,
       <<echo, "Assumed role: ", role_name>> >>

\* One statement per variable in the given syntax, then the closing echo
export_lines(prefix, echo, credentials, role_name) ==
    << <<prefix, "AWS_ACCESS_KEY_ID", credentials.access_key_id>>,
       <<prefix, "AWS_SECRET_ACCESS_KEY", credentials.secret_access_key>> >>
    \o (IF IsSome(credentials.session_token)
        THEN << <<prefix, "AWS_SESSION_TOKEN", Unwrap(credentials.session_token)>> >>
        ELSE <<>>)
    \o << <<echo, "Assumed role: ", role_name>> >>

\* output_shell_exports, both builds
output_shell_exports(credentials, role_name, env) ==
    IF env.os = "windows"
    THEN IF IsSome(env.PSModulePath)
         THEN export_lines("$env:", "Write-Host", credentials, role_name)
         ELSE export_lines("set", "echo", credentials, role_name)
    ELSE IF IsSome(env.SHELL) /\ Unwrap(env.SHELL) = "/usr/bin/fish"
         THEN export_lines("set -gx", "echo", credentials, role_name)
         ELSE export_lines("export", "echo", credentials, role_name)

\* output_credentials_for_shell: the lines it prints
output_credentials_for_shell(credentials, format, role_name, env) ==
    IF format = "json" THEN json_lines(credentials)
    ELSE output_shell_exports(credentials, role_name, env)

\* execute_with_credentials that does not look at the child's exit status
execute_with_credentials_any_status(credentials, command, env, outcome) ==
    LET parts == split_whitespace(command) IN
    IF parts = <<>> THEN [res |-> Err("CliError"), child |-> None]
    ELSE IF outcome = "spawn failed" THEN [res |-> Err("CliError"), child |-> None]
    ELSE [res |-> Ok("unit"),
          child |-> Some([program |-> Head(parts), args |-> Tail(parts),
                          AWS_ACCESS_KEY_ID |-> Some(credentials.access_key_id),
                          AWS_SECRET_ACCESS_KEY |-> Some(credentials.secret_access_key),
                          AWS_SESSION_TOKEN |->
                              IF IsSome(credentials.session_token)
                              THEN credentials.session_token
                              ELSE env.AWS_SESSION_TOKEN,
                          status |-> outcome])]

\* execute_with_credentials: its result and the child it started, if any
execute_with_credentials(credentials, command, env, outcome) ==
    LET parts == split_whitespace(command) IN
    IF parts = <<>> THEN [res |-> Err("CliError"), child |-> None]
    ELSE IF outcome = "spawn failed" THEN [res |-> Err("CliError"), child |-> None]
    ELSE LET child ==
                 [program |-> Head(parts), args |-> Tail(parts),
                  AWS_ACCESS_KEY_ID |-> Some(credentials.access_key_id),
                  AWS_SECRET_ACCESS_KEY |-> Some(credentials.secret_access_key),
                  AWS_SESSION_TOKEN |->
                      IF IsSome(credentials.session_token)
                      THEN credentials.session_token
                      ELSE env.AWS_SESSION_TOKEN,
                  status |-> outcome]
         IN  [res |-> IF outcome = "exit 0" THEN Ok("unit") ELSE Err("CliError"),
              child |-> Some(child)]

\* the match on cli.command
Dispatch(cmd) ==
    CASE cmd.kind = "configure" -> "configure_test"
      [] cmd.kind = "assume" -> "assume_lookup"
      [] cmd.kind = "list" -> "list"
      [] cmd.kind = "remove" -> "remove"
      [] cmd.kind = "verify" -> "verify_cli"

\* main: the exit code of the process for what Cli::run returned
main(result) == IF result.ok THEN 0 ELSE 1

\* Cli::run returns
Exit(c, result) == [c EXCEPT !.pc = "exit", !.exit = Some(result)]

\* Cli::parse in a new process
CliParse(cmd) ==
    /\ cli.pc \in {"idle", "exit"}
    /\ cli' = [NoCli EXCEPT !.pc = "load", !.cmd = cmd]
    /\ calls' = <<>>
    /\ out' = <<>>
    /\ config' = new
    /\ ret' = Call("new", <<>>, <<>>)
    /\ origin' = "new"
    /\ last' = NoHistory
    /\ UNCHANGED <<file, home>>
    /\ UNCHANGED peer

\* let mut config = Config::load()?;
CliLoad ==
    /\ cli.pc = "load"
    /\ CallLoad
    /\ LET r == load(home, file) IN
       cli' = IF r.ok THEN [cli EXCEPT !.pc = Dispatch(cli.cmd)] ELSE Exit(cli, r)
    /\ UNCHANGED <<calls, out>>
    /\ UNCHANGED peer

\* configure that hands an error of the test on with `?`
CliConfigureTest_propagate(sent) ==
    /\ cli.pc = "configure_test"
    /\ LET client == AwsClient_new
           r == test_assume_role(cli.cmd.role, sent)
       IN  IF ~client.ok
           THEN /\ cli' = Exit(cli, client)
                /\ UNCHANGED <<calls, out>>
           ELSE /\ calls' = Append(calls, test_assume_role_request(cli.cmd.role))
                /\ IF r.ok /\ r.val[1]
                   THEN /\ cli' = [cli EXCEPT !.pc = "configure_add", !.probe = "true",
                                              !.replies = Append(@, sent)]
                        /\ out' = out \o << <<"Configuring role", cli.cmd.name>>,
                                             <<"Testing role assumption... ", "Success!">> >>
                   ELSE IF r.ok
                   THEN /\ cli' = [cli EXCEPT !.pc = "configure_prompt", !.probe = "false",
                                              !.replies = Append(@, sent)]
                        /\ out' = out \o << <<"Configuring role", cli.cmd.name>>,
                                             <<"Testing role assumption... ", "Failed!">>,
                                             <<"Warning: Cannot assume role", cli.cmd.name>>,
                                             <<"Save configuration anyway? (y/N): ">> >>
                   ELSE /\ cli' = [Exit(cli, r) EXCEPT !.probe = "error",
                                                       !.replies = Append(@, sent)]
                        /\ out' = out \o << <<"Configuring role", cli.cmd.name>>,
                                             <<"Testing role assumption... ">>,
                                             <<"Error testing role">> >>
    /\ UNCHANGED storeVars
    /\ UNCHANGED peer

\* Commands::Configure: AwsClient::new().await? and the match on
\* test_assume_role(&role).await
CliConfigureTest(sent) ==
    /\ cli.pc = "configure_test"
    /\ LET client == AwsClient_new
           r == test_assume_role(cli.cmd.role, sent)
       IN  IF ~client.ok
           THEN /\ cli' = Exit(cli, client)
                /\ UNCHANGED <<calls, out>>
           ELSE /\ calls' = Append(calls, test_assume_role_request(cli.cmd.role))
                /\ IF r.ok /\ r.val[1]
                   THEN /\ cli' = [cli EXCEPT !.pc = "configure_add", !.probe = "true",
                                              !.replies = Append(@, sent)]
                        /\ out' = out \o << <<"Configuring role", cli.cmd.name>>,
                                             <<"Testing role assumption... ", "Success!">> >>
                   ELSE IF r.ok
                   THEN /\ cli' = [cli EXCEPT !.pc = "configure_prompt", !.probe = "false",
                                              !.replies = Append(@, sent)]
                        /\ out' = out \o << <<"Configuring role", cli.cmd.name>>,
                                             <<"Testing role assumption... ", "Failed!">>,
                                             <<"Warning: Cannot assume role", cli.cmd.name>>,
                                             <<"Save configuration anyway? (y/N): ">> >>
                   ELSE /\ cli' = [cli EXCEPT !.pc = "configure_add", !.probe = "error",
                                              !.replies = Append(@, sent)]
                        /\ out' = out \o << <<"Configuring role", cli.cmd.name>>,
                                             <<"Testing role assumption... ">>,
                                             <<"Error testing role">> >>
    /\ UNCHANGED storeVars
    /\ UNCHANGED peer

\* the prompt comparing the line as typed
CliConfigurePrompt_exact(answer) ==
    /\ cli.pc = "configure_prompt"
    /\ LET input == answer IN
       IF input = "y" \/ input = "yes"
       THEN /\ cli' = [cli EXCEPT !.pc = "configure_add", !.answer = Some(answer)]
            /\ out' = out
       ELSE /\ cli' = [Exit(cli, Ok("unit")) EXCEPT !.answer = Some(answer)]
            /\ out' = Append(out, <<"Role configuration cancelled">>)
    /\ UNCHANGED <<calls, config, file, home, ret, origin, last>>
    /\ UNCHANGED peer

\* Commands::Configure, Ok(false) arm: the answer read from stdin
CliConfigurePrompt(answer) ==
    /\ cli.pc = "configure_prompt"
    /\ LET input == to_lowercase(trim(answer)) IN
       IF input = "y" \/ input = "yes"
       THEN /\ cli' = [cli EXCEPT !.pc = "configure_add", !.answer = Some(answer)]
            /\ out' = out
       ELSE /\ cli' = [Exit(cli, Ok("unit")) EXCEPT !.answer = Some(answer)]
            /\ out' = Append(out, <<"Role configuration cancelled">>)
    /\ UNCHANGED <<calls, config, file, home, ret, origin, last>>
    /\ UNCHANGED peer

\* Commands::Configure: config.add_role(role)
CliConfigureAdd ==
    /\ cli.pc = "configure_add"
    /\ CallAddRole(cli.cmd.role)
    /\ cli' = [cli EXCEPT !.pc = "configure_save"]
    /\ UNCHANGED <<calls, out>>
    /\ UNCHANGED peer

\* Commands::Configure: config.save()? and the closing message
CliConfigureSave(fs) ==
    /\ cli.pc = "configure_save"
    /\ CallSave(fs)
    /\ LET r == save(config, home, file, fs).res IN
       IF r.ok
       THEN /\ cli' = Exit(cli, Ok("unit"))
            /\ out' = Append(out,
                 <<"Role configured",
                   CASE cli.probe = "true" -> "successfully"
                     [] cli.probe = "false" -> "(with warnings)"
                     [] OTHER -> "(could not verify)",
                   cli.cmd.name>>)
       ELSE /\ cli' = Exit(cli, r)
            /\ out' = out
    /\ UNCHANGED calls
    /\ UNCHANGED peer

\* assume that reports a missing role and returns Ok, as remove does
CliAssumeLookup_report ==
    /\ cli.pc = "assume_lookup"
    /\ CallGetRole(cli.cmd.name)
    /\ IF IsSome(get_role(config, cli.cmd.name))
       THEN cli' = [cli EXCEPT !.pc = "assume_call"] /\ out' = out
       ELSE /\ cli' = Exit(cli, Ok("unit"))
            /\ out' = Append(out, <<"Role not found", cli.cmd.name>>)
    /\ UNCHANGED calls
    /\ UNCHANGED peer

\* Commands::Assume: config.get_role(name).ok_or_else(..)?
CliAssumeLookup ==
    /\ cli.pc = "assume_lookup"
    /\ CallGetRole(cli.cmd.name)
    /\ cli' = IF IsSome(get_role(config, cli.cmd.name))
              THEN [cli EXCEPT !.pc = "assume_call"]
              ELSE Exit(cli, Err("CliError"))
    /\ UNCHANGED <<calls, out>>
    /\ UNCHANGED peer

\* assume that asks the provider a second time after a failure
CliAssumeRole_retry(sent) ==
    /\ cli.pc = "assume_call"
    /\ LET role == Unwrap(get_role(config, cli.cmd.name))
           r == assume_role(role, cli.cmd.duration, sent)
       IN  /\ calls' = Append(calls, assume_role_request(role, cli.cmd.duration))
           /\ cli' = IF r.ok
                     THEN [cli EXCEPT !.pc = "assume_output",
                                      !.credentials = Some(r.val[1]),
                                      !.replies = Append(@, sent)]
                     ELSE IF calls = <<>>
                     THEN [cli EXCEPT !.replies = Append(@, sent)]
                     ELSE [Exit(cli, r) EXCEPT !.replies = Append(@, sent)]
    /\ UNCHANGED <<out, config, file, home, ret, origin, last>>
    /\ UNCHANGED peer

\* Commands::Assume: AwsClient::new().await? and
\* aws_client.assume_role(role, *duration).await?
CliAssumeRole(sent) ==
    /\ cli.pc = "assume_call"
    /\ LET client == AwsClient_new
           role == Unwrap(get_role(config, cli.cmd.name))
           r == assume_role(role, cli.cmd.duration, sent)
       IN  IF ~client.ok
           THEN /\ cli' = Exit(cli, client)
                /\ calls' = calls
           ELSE /\ calls' = Append(calls, assume_role_request(role, cli.cmd.duration))
                /\ cli' = IF r.ok
                          THEN [cli EXCEPT !.pc = "assume_output",
                                           !.credentials = Some(r.val[1]),
                                           !.replies = Append(@, sent)]
                          ELSE [Exit(cli, r) EXCEPT !.replies = Append(@, sent)]
    /\ UNCHANGED <<out, config, file, home, ret, origin, last>>
    /\ UNCHANGED peer

\* assume that keeps the access key in the config file for the next run
CliAssumeOutput_cache(outcome) ==
    /\ cli.pc = "assume_output"
    /\ LET credentials == Unwrap(cli.credentials) IN
       IF IsSome(cli.cmd.exec)
       THEN LET r == execute_with_credentials(credentials, Unwrap(cli.cmd.exec),
                                              cli.cmd.env, outcome)
            IN  /\ cli' = [Exit(cli, r.res) EXCEPT !.child = r.child]
                /\ out' = out
       ELSE /\ cli' = Exit(cli, Ok("unit"))
            /\ out' = out \o output_credentials_for_shell(
                                 credentials, cli.cmd.format, cli.cmd.name, cli.cmd.env)
    /\ config' = [config EXCEPT !.default_profile =
                                  Some(Unwrap(cli.credentials).access_key_id)]
    /\ file' = Text(to_string_pretty(config'))
    /\ ret' = Call("save", <<>>, <<Ok("unit")>>)
    /\ UNCHANGED <<calls, home, origin, last>>
    /\ UNCHANGED peer

\* Commands::Assume: run the --exec command or print the credentials
CliAssumeOutput(outcome) ==
    /\ cli.pc = "assume_output"
    /\ LET credentials == Unwrap(cli.credentials) IN
       IF IsSome(cli.cmd.exec)
       THEN LET r == execute_with_credentials(credentials, Unwrap(cli.cmd.exec),
                                              cli.cmd.env, outcome)
            IN  /\ cli' = [Exit(cli, r.res) EXCEPT !.child = r.child]
                /\ out' = out
       ELSE /\ cli' = Exit(cli, Ok("unit"))
            /\ out' = out \o output_credentials_for_shell(
                                 credentials, cli.cmd.format, cli.cmd.name, cli.cmd.env)
    /\ UNCHANGED <<calls, config, file, home, ret, origin, last>>
    /\ UNCHANGED peer

\* list that takes a store of one role for an empty one
CliList_off_by_one ==
    /\ cli.pc = "list"
    /\ out' = IF Len(config.roles) <= 1
              THEN Append(out, <<"No roles configured">>)
              ELSE Append(out, <<"Configured roles:">>)
                   \o [i \in DOMAIN config.roles |->
                         <<"- ", config.roles[i].name, " (", config.roles[i].role_arn, ")">>]
    /\ cli' = Exit(cli, Ok("unit"))
    /\ UNCHANGED <<calls, config, file, home, ret, origin, last>>
    /\ UNCHANGED peer

\* Commands::List
CliList ==
    /\ cli.pc = "list"
    /\ out' = IF config.roles = <<>>
              THEN Append(out, <<"No roles configured">>)
              ELSE Append(out, <<"Configured roles:">>)
                   \o [i \in DOMAIN config.roles |->
                         <<"- ", config.roles[i].name, " (", config.roles[i].role_arn, ")">>]
    /\ cli' = Exit(cli, Ok("unit"))
    /\ UNCHANGED <<calls, config, file, home, ret, origin, last>>
    /\ UNCHANGED peer

\* Commands::Remove: config.remove_role(name)
CliRemove ==
    /\ cli.pc = "remove"
    /\ CallRemoveRole(cli.cmd.name)
    /\ IF remove_role(config, cli.cmd.name).removed
       THEN /\ cli' = [cli EXCEPT !.pc = "remove_save"]
            /\ out' = out
       ELSE /\ cli' = Exit(cli, Ok("unit"))
            /\ out' = Append(out, <<"Role not found", cli.cmd.name>>)
    /\ UNCHANGED calls
    /\ UNCHANGED peer

\* Commands::Remove: config.save()?
CliRemoveSave(fs) ==
    /\ cli.pc = "remove_save"
    /\ CallSave(fs)
    /\ LET r == save(config, home, file, fs).res IN
       IF r.ok
       THEN /\ cli' = Exit(cli, Ok("unit"))
            /\ out' = Append(out, <<"Role removed successfully", cli.cmd.name>>)
       ELSE /\ cli' = Exit(cli, r)
            /\ out' = out
    /\ UNCHANGED calls
    /\ UNCHANGED peer

\* What configure's test of the role comes back with
ProbeOutcomes ==
    {Sent(None),
     Sent(Some(StsCredentials(Some("ASIAEXAMPLE"), Some("wJalrEXAMPLEKEY"),
                              Some("FwoGZXIvYXdzEXAMPLE"), Some(1700000000))))}
    \cup {SendError(t) : t \in ErrorTexts}

\* What verify's role tests come back with
TestOutcomes ==
    {Sent(None),
     SendError(<<"AccessDenied", ": User is not authorized to perform sts:AssumeRole">>),
     SendError(<<"service error: ", "Forbidden">>),
     SendError(<<"dispatch failure: ", "timeout">>)}

\* verify_prerequisites: the closing summary
Summary(all_checks_passed) ==
    IF all_checks_passed
    THEN << <<"All prerequisites verified successfully!">> >>
    ELSE << <<"Some prerequisites failed verification">>,
            <<"Common solutions:">> >>

\* Check 1 that gives up when the AWS CLI is not found
CliVerifyCli_abort(probe) ==
    /\ cli.pc = "verify_cli"
    /\ LET r == check_aws_cli(probe) IN
       IF r.ok /\ r.val[1]
       THEN /\ out' = out \o << <<"Verifying AWS prerequisites...">>,
                                 <<"AWS CLI is installed and accessible">> >>
            /\ cli' = [cli EXCEPT !.pc = "verify_identity", !.passed = TRUE,
                                  !.tool = Some(probe)]
       ELSE /\ out' = out \o << <<"Verifying AWS prerequisites...">>,
                                 <<"AWS CLI is not installed or not in PATH">> >>
                          \o Summary(FALSE)
            /\ cli' = [Exit(cli, Ok("unit")) EXCEPT !.passed = FALSE,
                                                   !.tool = Some(probe)]
    /\ UNCHANGED <<calls, config, file, home, ret, origin, last>>
    /\ UNCHANGED peer

\* verify_prerequisites, Check 1: AwsClient::check_aws_cli()
CliVerifyCli(probe) ==
    /\ cli.pc = "verify_cli"
    /\ LET r == check_aws_cli(probe)
           verbose == IF cli.cmd.verbose
                      THEN << <<"Checking AWS CLI installation...">> >> ELSE <<>>
       IN  /\ out' = out \o << <<"Verifying AWS prerequisites...">> >> \o verbose
                     \o (IF r.ok /\ r.val[1]
                         THEN << <<"AWS CLI is installed and accessible">> >>
                         ELSE IF r.ok
                         THEN << <<"AWS CLI is not installed or not in PATH">> >>
                         ELSE << <<"Could not verify AWS CLI installation">> >>)
           /\ cli' = [cli EXCEPT !.pc = "verify_identity",
                                 !.passed = r.ok /\ r.val[1],
                                 !.tool = Some(probe)]
    /\ UNCHANGED <<calls, config, file, home, ret, origin, last>>
    /\ UNCHANGED peer

\* verify_prerequisites, Check 2: AwsClient::new().await and
\* aws_client.verify_current_identity().await
CliVerifyIdentity(sent) ==
    /\ cli.pc = "verify_identity"
    /\ LET client == AwsClient_new
           r == verify_current_identity(sent)
           verbose == IF cli.cmd.verbose
                      THEN << <<"Checking AWS credentials...">> >> ELSE <<>>
       IN  IF ~client.ok
           THEN /\ out' = out \o verbose \o << <<"Failed to initialize AWS SDK">> >>
                /\ cli' = [Exit(cli, Ok("unit")) EXCEPT !.passed = FALSE]
                /\ calls' = calls
           ELSE /\ calls' = Append(calls, verify_current_identity_request)
                /\ out' = out \o verbose
                          \o << <<"AWS SDK initialized successfully">> >>
                          \o (IF r.ok
                              THEN << <<"Current AWS identity verified">> >>
                                   \o (IF cli.cmd.verbose
                                       THEN << <<"Account: ", r.val[1].account>>,
                                               <<"ARN: ", r.val[1].arn>>,
                                               <<"User ID: ", r.val[1].user_id>> >>
                                       ELSE <<>>)
                              ELSE << <<"Failed to verify current AWS identity">> >>)
                /\ cli' = [cli EXCEPT !.pc = "verify_roles",
                                      !.passed = cli.passed /\ r.ok,
                                      !.replies = Append(@, sent)]
    /\ UNCHANGED <<config, file, home, ret, origin, last>>
    /\ UNCHANGED peer

\* Check 3 that counts an empty store as a failed check
CliVerifyRoles_empty_fails ==
    /\ cli.pc = "verify_roles"
    /\ LET specific_role == cli.cmd.specific_role
           found == IF IsSome(specific_role)
                    THEN get_role(config, Unwrap(specific_role)) ELSE None
           roles_to_check ==
               IF config.roles = <<>> THEN <<>>
               ELSE IF IsSome(specific_role) THEN found
               ELSE config.roles
           all_checks_passed ==
               cli.passed /\ config.roles # <<>>
                          /\ ~(IsSome(specific_role) /\ ~IsSome(found))
           lines ==
               IF config.roles = <<>> THEN << <<"No roles configured yet">> >>
               ELSE << <<"Found configured role(s)", ToString(Len(config.roles))>> >>
                    \o (IF IsSome(specific_role) /\ ~IsSome(found)
                        THEN << <<"Role not found in configuration", Unwrap(specific_role)>> >>
                        ELSE <<>>)
       IN  /\ IF config.roles # <<>> /\ IsSome(specific_role)
              THEN CallGetRole(Unwrap(specific_role))
              ELSE UNCHANGED <<config, file, home, ret, origin, last>>
           /\ IF roles_to_check = <<>>
              THEN /\ out' = out \o lines \o Summary(all_checks_passed)
                   /\ cli' = [Exit(cli, Ok("unit")) EXCEPT !.passed = all_checks_passed]
              ELSE /\ out' = out \o lines
                   /\ cli' = [cli EXCEPT !.pc = "verify_test",
                                         !.passed = all_checks_passed,
                                         !.todo = roles_to_check]
    /\ UNCHANGED calls
    /\ UNCHANGED peer

\* Check 3 that writes the store back when it tests every role
CliVerifyRoles_save ==
    /\ cli.pc = "verify_roles"
    /\ LET specific_role == cli.cmd.specific_role
           found == IF IsSome(specific_role)
                    THEN get_role(config, Unwrap(specific_role)) ELSE None
           roles_to_check ==
               IF config.roles = <<>> THEN <<>>
               ELSE IF IsSome(specific_role) THEN found
               ELSE config.roles
           all_checks_passed ==
               cli.passed /\ ~(config.roles # <<>> /\ IsSome(specific_role)
                               /\ ~IsSome(found))
           lines ==
               IF config.roles = <<>> THEN << <<"No roles configured yet">> >>
               ELSE << <<"Found configured role(s)", ToString(Len(config.roles))>> >>
                    \o (IF IsSome(specific_role) /\ ~IsSome(found)
                        THEN << <<"Role not found in configuration", Unwrap(specific_role)>> >>
                        ELSE <<>>)
       IN  /\ IF config.roles # <<>> /\ IsSome(specific_role)
              THEN CallGetRole(Unwrap(specific_role))
              ELSE CallSave("ok")
           /\ IF roles_to_check = <<>>
              THEN /\ out' = out \o lines \o Summary(all_checks_passed)
                   /\ cli' = [Exit(cli, Ok("unit")) EXCEPT !.passed = all_checks_passed]
              ELSE /\ out' = out \o lines
                   /\ cli' = [cli EXCEPT !.pc = "verify_test",
                                         !.passed = all_checks_passed,
                                         !.todo = roles_to_check]
    /\ UNCHANGED calls
    /\ UNCHANGED peer

\* verify_prerequisites, Check 3: the roles to test; with nothing to test
\* the summary follows at once
CliVerifyRoles ==
    /\ cli.pc = "verify_roles"
    /\ LET specific_role == cli.cmd.specific_role
           found == IF IsSome(specific_role)
                    THEN get_role(config, Unwrap(specific_role)) ELSE None
           roles_to_check ==
               IF config.roles = <<>> THEN <<>>
               ELSE IF IsSome(specific_role) THEN found
               ELSE config.roles
           all_checks_passed ==
               cli.passed /\ ~(config.roles # <<>> /\ IsSome(specific_role)
                               /\ ~IsSome(found))
           lines ==
               IF config.roles = <<>> THEN << <<"No roles configured yet">> >>
               ELSE << <<"Found configured role(s)", ToString(Len(config.roles))>> >>
                    \o (IF IsSome(specific_role) /\ ~IsSome(found)
                        THEN << <<"Role not found in configuration", Unwrap(specific_role)>> >>
                        ELSE <<>>)
       IN  /\ IF config.roles # <<>> /\ IsSome(specific_role)
              THEN CallGetRole(Unwrap(specific_role))
              ELSE UNCHANGED <<config, file, home, ret, origin, last>>
           /\ IF roles_to_check = <<>>
              THEN /\ out' = out \o lines \o Summary(all_checks_passed)
                   /\ cli' = [Exit(cli, Ok("unit")) EXCEPT !.passed = all_checks_passed]
              ELSE /\ out' = out \o lines
                   /\ cli' = [cli EXCEPT !.pc = "verify_test",
                                         !.passed = all_checks_passed,
                                         !.todo = roles_to_check]
    /\ UNCHANGED calls
    /\ UNCHANGED peer

\* the loop with a status that follows the latest test alone
CliVerifyTest_last_wins(sent) ==
    /\ cli.pc = "verify_test"
    /\ LET role == Head(cli.todo)
           r == test_assume_role(role, sent)
           all_checks_passed == r.ok /\ r.val[1]
           verbose == IF cli.cmd.verbose
                      THEN << <<"Testing role assumption for", role.name>> >> ELSE <<>>
           line == IF r.ok /\ r.val[1]
                   THEN <<"Can assume role", role.name, role.role_arn>>
                   ELSE IF r.ok
                   THEN <<"Cannot assume role", role.name, role.role_arn>>
                   ELSE <<"Could not test role", role.name>>
       IN  /\ calls' = Append(calls, test_assume_role_request(role))
           /\ IF Tail(cli.todo) = <<>>
              THEN /\ out' = out \o verbose \o <<line>> \o Summary(all_checks_passed)
                   /\ cli' = [Exit(cli, Ok("unit")) EXCEPT !.passed = all_checks_passed,
                                                          !.todo = <<>>,
                                                          !.replies = Append(@, sent)]
              ELSE /\ out' = out \o verbose \o <<line>>
                   /\ cli' = [cli EXCEPT !.passed = all_checks_passed,
                                         !.todo = Tail(cli.todo),
                                         !.replies = Append(@, sent)]
    /\ UNCHANGED <<config, file, home, ret, origin, last>>
    /\ UNCHANGED peer

\* verify_prerequisites: one turn of `for role in roles_to_check`; after the
\* last role the summary
CliVerifyTest(sent) ==
    /\ cli.pc = "verify_test"
    /\ LET role == Head(cli.todo)
           r == test_assume_role(role, sent)
           all_checks_passed == cli.passed /\ r.ok /\ r.val[1]
           verbose == IF cli.cmd.verbose
                      THEN << <<"Testing role assumption for", role.name>> >> ELSE <<>>
           line == IF r.ok /\ r.val[1]
                   THEN <<"Can assume role", role.name, role.role_arn>>
                   ELSE IF r.ok
                   THEN <<"Cannot assume role", role.name, role.role_arn>>
                   ELSE <<"Could not test role", role.name>>
       IN  /\ calls' = Append(calls, test_assume_role_request(role))
           /\ IF Tail(cli.todo) = <<>>
              THEN /\ out' = out \o verbose \o <<line>> \o Summary(all_checks_passed)
                   /\ cli' = [Exit(cli, Ok("unit")) EXCEPT !.passed = all_checks_passed,
                                                          !.todo = <<>>,
                                                          !.replies = Append(@, sent)]
              ELSE /\ out' = out \o verbose \o <<line>>
                   /\ cli' = [cli EXCEPT !.passed = all_checks_passed,
                                         !.todo = Tail(cli.todo),
                                         !.replies = Append(@, sent)]
    /\ UNCHANGED <<config, file, home, ret, origin, last>>
    /\ UNCHANGED peer

\* One invocation of the program after another, each a new process.
NextCli ==
    \/ \E cmd \in CommandInputs : CliParse(cmd)
    \/ CliLoad
    \/ \E sent \in ProbeOutcomes : CliConfigureTest(sent)
    \/ \E answer \in PromptInputs : CliConfigurePrompt(answer)
    \/ CliConfigureAdd
    \/ \E fs \in FsOutcomes : CliConfigureSave(fs)
    \/ CliAssumeLookup
    \/ \E sent \in AssumeRoleOutcomes : CliAssumeRole(sent)
    \/ \E outcome \in ChildOutcomes : CliAssumeOutput(outcome)
    \/ CliList
    \/ CliRemove
    \/ \E fs \in FsOutcomes : CliRemoveSave(fs)
    \/ \E probe \in AwsCliProbes : CliVerifyCli(probe)
    \/ \E sent \in IdentityOutcomes : CliVerifyIdentity(sent)
    \/ CliVerifyRoles
    \/ \E sent \in TestOutcomes : CliVerifyTest(sent)

\* The first invocation finds no file, or a file it did not write.
InitCli ==
    /\ InitProcess
    /\ \/ file = NoFile /\ home \in BOOLEAN
       \/ file \in GoodFiles \cup BadFiles /\ home = TRUE

SpecCli == InitCli /\ [][NextCli]_vars

----------------------------------------------------------------------------
(* Two invocations at the same time.  Nothing locks the config file: each  *)
(* process loads it, changes its own Config value and saves.  fs::write    *)
(* opens the file with truncation and then writes the text from offset 0,  *)
(* two steps that another process can come between.  The second process    *)
(* takes them as two steps; the first one saves in one step, which is the  *)
(* schedule where its two steps follow each other directly.                *)

\* decimal digits of a non-negative integer
RECURSIVE digits(_)
digits(n) == IF n < 10 THEN 1 ELSE 1 + digits(n \div 10)

\* Sum of f over 1..n
RECURSIVE sum(_, _)
sum(f, n) == IF n = 0 THEN 0 ELSE f[n] + sum(f, n - 1)

\* Bytes of the text serde_json's PrettyFormatter writes for a value at
\* nesting depth d: two spaces a level, one item a line, ": " after a key
RECURSIVE text_len(_, _)
text_len(j, d) ==
    CASE j.t = "null" -> 4
      [] j.t = "string" -> Len(j.v[1]) + 2
      [] j.t = "number" -> digits(j.v[1])
      [] j.t = "array" ->
            IF j.v = <<>> THEN 2
            ELSE 1 + sum([i \in DOMAIN j.v |->
                            (IF i > 1 THEN 1 ELSE 0) + 1 + 2 * (d + 1)
                            + text_len(j.v[i], d + 1)], Len(j.v))
                   + 1 + 2 * d + 1
      [] j.t = "object" ->
            IF j.v = <<>> THEN 2
            ELSE 1 + sum([i \in DOMAIN j.v |->
                            (IF i > 1 THEN 1 ELSE 0) + 1 + 2 * (d + 1)
                            + Len(j.v[i][1]) + 2 + 2
                            + text_len(j.v[i][2], d + 1)], Len(j.v))
                   + 1 + 2 * d + 1
      [] OTHER -> 0

\* write_all from offset 0 into the file as it is now: a longer text that
\* another process wrote since the truncation keeps its tail, and the whole
\* is no JSON value
write_all(f, doc) ==
    IF f.kind = "text" /\ f.content # JInvalid
       /\ text_len(f.content, 0) > text_len(doc, 0)
    THEN Text(JInvalid)
    ELSE Text(doc)

RaceDev == RoleConfig("dev", "arn:aws:iam::123456789012:role/DevRole", None, None)
RaceProd == RoleConfig("prod", "arn:aws:iam::123456789012:role/TestRole2", Some("default"), None)

\* configure and remove, the commands that load, change and save
RaceCommands == {Configure(RaceDev), Configure(RaceProd), Remove("dev")}

RaceProbes ==
    {Sent(None),
     SendError(<<"AccessDenied", ": User is not authorized to perform sts:AssumeRole">>)}

RaceAnswers == {"y", "n"}

\* the first process is started once
RaceParse(cmd) ==
    /\ cli.pc = "idle"
    /\ CliParse(cmd)

\* Cli::parse in the second process
PeerParse(cmd) ==
    /\ peer.pc = "idle"
    /\ peer' = [peer EXCEPT !.pc = "load", !.cmd = cmd]
    /\ UNCHANGED <<config, file, home, ret, origin, last, cli, calls, out>>

\* let mut config = Config::load()?; in the second process
PeerLoad ==
    /\ peer.pc = "load"
    /\ LET r == load(home, file) IN
       peer' = IF r.ok
               THEN [peer EXCEPT !.pc = "change", !.config = r.val[1]]
               ELSE [peer EXCEPT !.pc = "exit", !.exit = Some(r)]
    /\ UNCHANGED <<config, file, home, ret, origin, last, cli, calls, out>>

\* Commands::Configure and Commands::Remove in the second process, from
\* the load up to config.save(): the test of the role and the prompt, then
\* add_role; or remove_role.  None of it touches the file.
PeerChange(sent, answer) ==
    /\ peer.pc = "change"
    /\ IF peer.cmd.kind = "configure"
       THEN LET r == test_assume_role(peer.cmd.role, sent)
                input == to_lowercase(trim(answer))
            IN  IF r.ok /\ ~r.val[1] /\ ~(input = "y" \/ input = "yes")
                THEN peer' = [peer EXCEPT !.pc = "exit", !.exit = Some(Ok("unit")),
                                          !.out = <<"Role configuration cancelled">>]
                ELSE peer' = [peer EXCEPT !.pc = "save",
                                          !.config = add_role(@, peer.cmd.role)]
       ELSE LET r == remove_role(peer.config, peer.cmd.name)
            IN  IF r.removed
                THEN peer' = [peer EXCEPT !.pc = "save", !.config = r.cfg]
                ELSE peer' = [peer EXCEPT !.pc = "exit", !.exit = Some(Ok("unit")),
                                          !.out = <<"Role not found", peer.cmd.name>>]
    /\ UNCHANGED <<config, file, home, ret, origin, last, cli, calls, out>>

\* Config::save in the second process, up to the opening of the file:
\* File::create truncates it
PeerSave(fs) ==
    /\ peer.pc = "save"
    /\ IF ~get_config_path(home).ok \/ fs \in {"mkdir", "create"}
       THEN /\ peer' = [peer EXCEPT !.pc = "exit", !.exit = Some(Err("ConfigError"))]
            /\ file' = file
       ELSE /\ peer' = [peer EXCEPT !.pc = "write"]
            /\ file' = Text(JInvalid)
    /\ UNCHANGED <<config, home, ret, origin, last, cli, calls, out>>

\* Config::save in the second process: write_all, and the closing message
PeerWrite(fs) ==
    /\ peer.pc = "write"
    /\ IF fs = "write"
       THEN /\ peer' = [peer EXCEPT !.pc = "exit", !.exit = Some(Err("ConfigError"))]
            /\ file' = Text(JInvalid)
       ELSE /\ peer' = [peer EXCEPT !.pc = "exit", !.exit = Some(Ok("unit")),
                                    !.out = IF peer.cmd.kind = "configure"
                                            THEN <<"Role configured", peer.cmd.name>>
                                            ELSE <<"Role removed successfully", peer.cmd.name>>]
            /\ file' = write_all(file, to_string_pretty(peer.config))
    /\ UNCHANGED <<config, home, ret, origin, last, cli, calls, out>>

NextRace ==
    \/ \E cmd \in RaceCommands : RaceParse(cmd)
    \/ CliLoad
    \/ \E sent \in RaceProbes : CliConfigureTest(sent)
    \/ \E answer \in RaceAnswers : CliConfigurePrompt(answer)
    \/ CliConfigureAdd
    \/ \E fs \in {"ok", "create"} : CliConfigureSave(fs)
    \/ CliRemove
    \/ \E fs \in {"ok", "create"} : CliRemoveSave(fs)
    \/ \E cmd \in RaceCommands : PeerParse(cmd)
    \/ PeerLoad
    \/ \E sent \in RaceProbes, answer \in RaceAnswers : PeerChange(sent, answer)
    \/ \E fs \in {"ok", "create"} : PeerSave(fs)
    \/ \E fs \in {"ok", "write"} : PeerWrite(fs)

\* The file is as an earlier configure left it, or not there yet.
InitRace ==
    /\ InitProcess
    /\ home = TRUE
    /\ file \in {NoFile,
                  Text(to_string_pretty(add_role(new, RaceDev))),
                  Text(to_string_pretty(add_role(add_role(new, RaceDev), RaceProd)))}

SpecRace == InitRace /\ [][NextRace]_vars

----------------------------------------------------------------------------
(* Properties of the store                                                 *)

\* index of the first definition named n (0 if there is none), written out
\* without position()
FirstNamed(roles, n) ==
    IF \E i \in DOMAIN roles : roles[i].name = n
    THEN CHOOSE i \in DOMAIN roles :
            roles[i].name = n /\ \A j \in 1..(i - 1) : roles[j].name # n
    ELSE 0

Without(roles, i) == SubSeq(roles, 1, i - 1) \o SubSeq(roles, i + 1, Len(roles))

SameMetadata(a, b) ==
    /\ a.default_profile = b.default_profile
    /\ a.sso_start_url = b.sso_start_url
    /\ a.sso_region = b.sso_region

\* the step is a second add_role in a row under the same name with another ARN
SecondAdd ==
    /\ ret.op = "add_role"
    /\ ret'.op = "add_role"
    /\ ret'.arg[1].name = ret.arg[1].name
    /\ ret'.arg[1].role_arn # ret.arg[1].role_arn

OneEntryWithSecondArn ==
    /\ Count(config', ret'.arg[1].name) = 1
    /\ \A i \in DOMAIN config'.roles :
          config'.roles[i].name = ret'.arg[1].name
             => config'.roles[i].role_arn = ret'.arg[1].role_arn

NoGrowth ==
    (ret'.op = "add_role" /\ Count(config, ret'.arg[1].name) > 0)
        => Len(config'.roles) <= Len(config.roles)

\* C1 as stated: for every store, adding twice under one name with different
\* ARNs leaves exactly one entry of that name, with the second ARN, and
\* add_role under a present name never grows the role list.
C1_AsStated ==
    [][(SecondAdd => OneEntryWithSecondArn) /\ NoGrowth]_vars

\* C1 amended: the same, for stores in which the name is carried by one
\* definition only after the first add (every store with unique names);
\* add_role under a present name never grows the role list of any store.
C1_TwiceLeavesOne ==
    [][((SecondAdd /\ Count(config, ret.arg[1].name) = 1) => OneEntryWithSecondArn)
       /\ NoGrowth]_vars

\* a second add under the same name has replaced a definition with another ARN
C1_Witness ==
    /\ ret.op = "add_role"
    /\ IsSome(ret.result)
    /\ ret.result[1].role_arn # ret.arg[1].role_arn
    /\ Count(config, ret.arg[1].name) = 1
    /\ Len(config.roles) = 3

\* C2: from an empty store, whatever add_role, remove_role, save and load
\* do, no two definitions in the store have the same name.
C2_UniqueNames ==
    \A i, j \in DOMAIN config.roles :
        i # j => config.roles[i].name # config.roles[j].name

\* a store that was saved, loaded back, and then had a present name added again
C2_Witness ==
    /\ origin = "file"
    /\ ret.op = "add_role"
    /\ IsSome(ret.result)
    /\ Len(config.roles) = 3

\* C3: add_role changes one position only: it replaces the first definition
\* of that name where it stands, or appends; every other entry, the
\* metadata and the file stay as they are.
C3_AddRoleFrame ==
    [][ret'.op = "add_role" =>
        LET role == ret'.arg[1]
            i == FirstNamed(config.roles, role.name)
        IN  /\ IF i # 0
               THEN /\ Len(config'.roles) = Len(config.roles)
                    /\ config'.roles[i] = role
                    /\ \A j \in DOMAIN config.roles :
                          j # i => config'.roles[j] = config.roles[j]
               ELSE config'.roles = config.roles \o <<role>>
            /\ SameMetadata(config', config)
            /\ file' = file]_vars

\* a definition that is not the last one was replaced in a store that
\* carries metadata
C3_Witness ==
    /\ ret.op = "add_role"
    /\ IsSome(ret.result)
    /\ ret.result[1] # ret.arg[1]
    /\ Len(config.roles) = 3
    /\ config.roles[1] = ret.arg[1]
    /\ IsSome(config.default_profile)

\* C4: on a store built from an empty one by add_role / remove_role,
\* get_role(n) returns the definition most recently added under exactly the
\* name n, and nothing if n was never added or has been removed since; it
\* changes neither the store nor the file.
C4_Lookup ==
    (ret.op = "get_role" /\ origin = "new") =>
        LET n == ret.arg[1] IN
        ret.result = IF last[n][1] = "added" THEN Some(last[n][2]) ELSE None

C4_GetRole ==
    /\ []C4_Lookup
    /\ [][ret'.op = "get_role" => (config' = config /\ file' = file)]_vars

\* "Dev" is looked up and not found while "dev" is in the store
C4_Witness ==
    /\ ret.op = "get_role"
    /\ origin = "new"
    /\ ret.arg[1] = "Dev"
    /\ ret.result = None
    /\ last["dev"][1] = "added"
    /\ last["Dev"][1] = "never"

\* what a remove_role step does to the store
RemoveEffect ==
    LET n == ret'.arg[1]
        i == FirstNamed(config.roles, n)
    IN  /\ i # 0 =>
            /\ ret'.result[1] = TRUE
            /\ Len(config'.roles) = Len(config.roles) - 1
            /\ config'.roles = Without(config.roles, i)
            /\ SameMetadata(config', config)
        /\ i = 0 => (ret'.result[1] = FALSE /\ config' = config)
        /\ ret'.result[1] = FALSE => config' = config

\* C5 as stated: once remove_role(n) has returned true, it returns false on
\* every later call until n is added again; a true removal takes out the
\* first definition of that name and nothing else, a false one changes
\* nothing.
C5_AsStated ==
    [][ret'.op = "remove_role" =>
        /\ last[ret'.arg[1]][1] = "removed" => ret'.result[1] = FALSE
        /\ RemoveEffect]_vars

\* C5 amended: the same, where the removal that returned true was of a name
\* carried by exactly one definition (every present name of a store with
\* unique names); remove_role returns true once per definition of the name.
C5_RemoveOnce ==
    [][ret'.op = "remove_role" =>
        /\ last[ret'.arg[1]] = Removed(1) => ret'.result[1] = FALSE
        /\ RemoveEffect]_vars

\* a second remove_role of a name returns false and leaves the rest
C5_Witness ==
    /\ ret.op = "remove_role"
    /\ ret.result[1] = FALSE
    /\ last[ret.arg[1]] = Removed(1)
    /\ Len(config.roles) = 2

\* C6: saving a non-empty store and loading it back gives the same role
\* list: same length, same order, every field of every definition equal.
C6_RoundTrip ==
    [][(/\ ret.op = "save"
        /\ ret.result[1].ok
        /\ ret'.op = "load"
        /\ Len(config.roles) > 0)
          => (ret'.result[1].ok /\ config'.roles = config.roles)]_vars

\* a store of three definitions, with optional fields both present and
\* absent, was loaded from the file that save() wrote
C6_Witness ==
    /\ ret.op = "load"
    /\ ret.result[1].ok
    /\ origin = "file"
    /\ file = Text(to_string_pretty(config))
    /\ Len(config.roles) = 3
    /\ \E i \in DOMAIN config.roles : config.roles[i].session_duration = None
    /\ \E i \in DOMAIN config.roles : IsSome(config.roles[i].source_profile)

\* C7: with the home directory known and no config file, load() returns an
\* empty store without metadata, not an error, and creates no file.
C7_LoadMissing ==
    [][(ret'.op = "load" /\ home /\ file.kind = "absent") =>
        /\ ret'.result[1].ok
        /\ ret'.result[1].val[1].roles = <<>>
        /\ ret'.result[1].val[1].default_profile = None
        /\ ret'.result[1].val[1].sso_start_url = None
        /\ ret'.result[1].val[1].sso_region = None
        /\ config' = ret'.result[1].val[1]
        /\ file'.kind = "absent"]_vars

\* load() has answered with an empty store while there is no file
C7_Witness ==
    /\ ret.op = "load"
    /\ ret.result[1].ok
    /\ home
    /\ file.kind = "absent"
    /\ config.roles = <<>>

\* C8: load() on a file that is there and cannot be read, or does not parse
\* as a store, fails with ConfigError, hands back no store and leaves the
\* file as it is.  A command begins with that load: the failure is the
\* command's result, with no provider request made and nothing written; no
\* provider request is ever made, and no file ever written, over a file that
\* load() cannot use.
C8_LoadFails ==
    [][/\ (cli.pc = "load" /\ file \in BadFiles) =>
            /\ ret' = Call("load", <<>>, <<Err("ConfigError")>>)
            /\ ret'.result[1].val = <<>>
            /\ config' = config
            /\ file' = file
            /\ cli'.pc = "exit"
            /\ cli'.exit = Some(Err("ConfigError"))
            /\ calls' = <<>>
            /\ out' = <<>>
       /\ calls' # calls =>
            \/ calls' = <<>>
            \/ file \notin BadFiles /\ cli.pc \notin {"idle", "load", "exit"}
       /\ file' # file =>
            file \notin BadFiles /\ cli.pc \notin {"idle", "load", "exit"}]_vars

\* a configure command has ended on a file that holds no store
C8_Witness ==
    /\ cli.pc = "exit"
    /\ cli.cmd.kind = "configure"
    /\ cli.exit = Some(Err("ConfigError"))
    /\ ret = Call("load", <<>>, <<Err("ConfigError")>>)
    /\ file = FileBadType
    /\ calls = <<>>

\* C9: only save() changes the file; add_role, remove_role and get_role
\* never do; after a successful save() the file is the whole store and
\* nothing else.
C9_NoAutoSave ==
    [][/\ file' # file => ret'.op = "save"
       /\ ret'.op \in {"add_role", "remove_role", "get_role"} => file' = file
       /\ (ret'.op = "save" /\ ret'.result[1].ok) =>
            /\ config' = config
            /\ file'.kind = "text"
            /\ file'.content.t = "object"
            /\ Len(file'.content.v) = Len(ConfigFields)
            /\ from_str(file'.content) = Ok(config)]_vars

\* a file that was not written by save() has been replaced by the store
C9_Witness ==
    /\ ret.op = "save"
    /\ ret.result[1].ok
    /\ origin = "file"
    /\ IsSome(config.default_profile)
    /\ Len(config.roles) = 2
    /\ file # FileMetadata

\* C10: the request of `assume` names the role's ARN and asks for the
\* --duration value if there is one, else for the role's session_duration if
\* it has one, else for 3600 seconds.
C10_AsStated ==
    (cli.cmd.kind = "assume" /\ calls # <<>>) =>
        LET def == Unwrap(get_role(config, cli.cmd.name))
            durationOverride == cli.cmd.duration
        IN  /\ Len(calls) = 1
            /\ calls[1].api = "AssumeRole"
            /\ calls[1].role_arn = def.role_arn
            /\ calls[1].duration_seconds =
                 IF IsSome(durationOverride) THEN Unwrap(durationOverride)
                 ELSE IF IsSome(def.session_duration) THEN Unwrap(def.session_duration)
                 ELSE 3600

\* C10, what the program does: the request names the role's ARN and asks
\* for the --duration value if there is one, else for 3600 seconds, whatever
\* session_duration the role carries.
C10_RequestedDuration ==
    (cli.cmd.kind = "assume" /\ calls # <<>>) =>
        LET def == Unwrap(get_role(config, cli.cmd.name))
            durationOverride == cli.cmd.duration
        IN  /\ Len(calls) = 1
            /\ calls[1].api = "AssumeRole"
            /\ calls[1].role_arn = def.role_arn
            /\ calls[1].role_session_name = "aws-assume-role-session"
            /\ calls[1].duration_seconds =
                 IF IsSome(durationOverride) THEN Unwrap(durationOverride) ELSE 3600

\* `assume dev` without --duration has made its request for a role that
\* was configured with a session_duration of 7200
C10_Witness ==
    /\ cli.cmd.kind = "assume"
    /\ cli.cmd.name = "dev"
    /\ cli.cmd.duration = None
    /\ calls # <<>>
    /\ get_role(config, "dev") # None
    /\ Unwrap(get_role(config, "dev")).session_duration = Some(7200)

----------------------------------------------------------------------------
(* Properties of the provider client and of the commands                   *)

\* C11: `assume` ends with AwsError when the provider call fails, whatever
\* the failure, access denial included, and when the call succeeds and the
\* response holds no credentials; it holds a credential record only when the
\* provider returned credentials.
C11_AssumeRoleErrors ==
    (cli.cmd.kind = "assume" /\ calls # <<>>) =>
        LET sent == cli.replies[1] IN
        /\ Len(cli.replies) = 1
        /\ ~sent.ok =>
             /\ cli.pc = "exit"
             /\ cli.exit = Some(Err("AwsError"))
             /\ cli.credentials = None
        /\ (sent.ok /\ sent.credentials = None) =>
             /\ cli.pc = "exit"
             /\ cli.exit = Some(Err("AwsError"))
             /\ cli.credentials = None
        /\ IsSome(cli.credentials) <=> (sent.ok /\ IsSome(sent.credentials))
        /\ IsSome(cli.credentials) => cli.exit # Some(Err("AwsError"))

\* the provider has answered an `assume` without credentials
C11_Witness ==
    /\ cli.cmd.kind = "assume"
    /\ cli.replies = <<Sent(None)>>
    /\ cli.exit = Some(Err("AwsError"))

\* C12: the credential record has a session token exactly when the provider
\* returned one, and an expiration exactly when the provider returned one;
\* the export lines for bash/zsh and for fish always hold the access key and
\* the secret key statements, and the AWS_SESSION_TOKEN statement exactly
\* when the record has a session token.
C12_Optionality ==
    (cli.cmd.kind = "assume" /\ IsSome(cli.credentials)) =>
        LET provided == Unwrap(cli.replies[1].credentials)
            record == Unwrap(cli.credentials)
            prefix == IF cli.cmd.env.SHELL = Some("/usr/bin/fish")
                      THEN "set -gx" ELSE "export"
            Statements(v) == {i \in DOMAIN out : Len(out[i]) = 3 /\ out[i][2] = v}
        IN  /\ record.session_token = provided.session_token
            /\ IsSome(record.expiration) <=> IsSome(provided.expiration)
            /\ (/\ cli.pc = "exit"
                /\ cli.cmd.exec = None
                /\ cli.cmd.format # "json"
                /\ cli.cmd.env.os = "unix") =>
                  /\ \E i \in Statements("AWS_ACCESS_KEY_ID") :
                        out[i] = <<prefix, "AWS_ACCESS_KEY_ID", record.access_key_id>>
                  /\ \E i \in Statements("AWS_SECRET_ACCESS_KEY") :
                        out[i] = <<prefix, "AWS_SECRET_ACCESS_KEY", record.secret_access_key>>
                  /\ IsSome(record.session_token) <=>
                        Statements("AWS_SESSION_TOKEN") # {}
                  /\ \A i \in Statements("AWS_SESSION_TOKEN") :
                        out[i] = <<prefix, "AWS_SESSION_TOKEN", Unwrap(record.session_token)>>

\* fish statements have been printed for credentials without a session
\* token and without an expiration
C12_Witness ==
    /\ cli.cmd.kind = "assume"
    /\ cli.pc = "exit"
    /\ cli.cmd.env.SHELL = Some("/usr/bin/fish")
    /\ IsSome(cli.credentials)
    /\ Unwrap(cli.credentials).session_token = None
    /\ Unwrap(cli.credentials).expiration = None
    /\ Len(out) = 3

\* C13: the test of a role has three outcomes, decided by what the provider
\* answered: true when the call succeeded, false when it failed with a text
\* that holds "AccessDenied" or "Forbidden", and an error for every other
\* failure (timeout, invalid ARN, throttling), never false.
C13_ThreeOutcomes ==
    (cli.cmd.kind = "configure" /\ calls # <<>>) =>
        LET sent == cli.replies[1]
            denied ==
                /\ ~sent.ok
                /\ sent.text \in
                     {<<"AccessDenied", ": User is not authorized to perform sts:AssumeRole">>,
                      <<"service error: ", "Forbidden">>}
            other ==
                /\ ~sent.ok
                /\ sent.text \in {<<"dispatch failure: ", "timeout">>,
                                  <<"ValidationError", ": invalid ARN">>,
                                  <<"Throttling">>}
        IN  /\ Len(cli.replies) = 1
            /\ cli.probe \in {"true", "false", "error"}
            /\ cli.probe = "true" <=> sent.ok
            /\ cli.probe = "false" <=> denied
            /\ cli.probe = "error" <=> other

\* a throttled test of the role has come back as an error
C13_Witness ==
    /\ cli.cmd.kind = "configure"
    /\ cli.replies = <<SendError(<<"Throttling">>)>>
    /\ cli.probe = "error"

\* A verify command has loaded the store, run its checks and returned
VerifyDone ==
    /\ cli.cmd.kind = "verify"
    /\ cli.pc = "exit"
    /\ cli.exit = Some(Ok("unit"))

\* The roles verify has to test: none in an empty store, the first one of
\* the given name if a name is given, else all of them in store order
Scope ==
    IF IsSome(cli.cmd.specific_role)
    THEN LET i == FirstNamed(config.roles, Unwrap(cli.cmd.specific_role))
         IN  IF i = 0 THEN <<>> ELSE <<config.roles[i]>>
    ELSE config.roles

\* the requests after the first are one test per role of Scope, in order
TestsCoverScope ==
    /\ Len(calls) = 1 + Len(Scope)
    /\ Len(cli.replies) = Len(calls)
    /\ calls[1].api = "GetCallerIdentity"
    /\ \A i \in DOMAIN Scope :
         /\ calls[i + 1].api = "AssumeRole"
         /\ calls[i + 1].role_arn = Scope[i].role_arn
         /\ calls[i + 1].role_session_name = "aws-assume-role-test"

Printed(line) == \E i \in DOMAIN out : out[i] = line

\* C15: a failed `aws --version` probe and a failed identity check do not
\* end verify: the client is initialised, the identity is asked for and every
\* role in scope is tested all the same, and the overall result is failed.
C15_FailuresDoNotAbort ==
    (/\ VerifyDone
     /\ cli.tool # Some("success") \/ ~cli.replies[1].ok) =>
        /\ Printed(<<"AWS SDK initialized successfully">>)
        /\ TestsCoverScope
        /\ ~cli.passed
        /\ Printed(<<"Some prerequisites failed verification">>)
        /\ ~Printed(<<"All prerequisites verified successfully!">>)

\* verify has gone on to test two roles after both the probe and the
\* identity check failed
C15_Witness ==
    /\ VerifyDone
    /\ cli.tool = Some("not found")
    /\ ~cli.replies[1].ok
    /\ Len(config.roles) = 2
    /\ Len(calls) = 3

\* C16: on a store without roles verify reports that nothing is configured
\* and tests no role; the result is pass exactly when the probe and the
\* identity check passed, with or without a role name on the command line.
C16_EmptyStore ==
    (VerifyDone /\ config.roles = <<>>) =>
        /\ Printed(<<"No roles configured yet">>)
        /\ Len(calls) = 1
        /\ calls[1].api = "GetCallerIdentity"
        /\ cli.passed <=> (cli.tool = Some("success") /\ cli.replies[1].ok)
        /\ cli.passed <=> Printed(<<"All prerequisites verified successfully!">>)
        /\ cli.passed <=> ~Printed(<<"Some prerequisites failed verification">>)

\* verify of a named role has passed on an empty store
C16_Witness ==
    /\ VerifyDone
    /\ config.roles = <<>>
    /\ cli.cmd.specific_role = Some("dev")
    /\ cli.passed
    /\ Printed(<<"All prerequisites verified successfully!">>)

\* C17: on a store with roles verify tests each role in scope once, in store
\* order; the result is pass exactly when the probe passed, the identity
\* check passed, the named role (if any) is in the store and every test
\* returned true; a status that was lowered stays lowered.
C17_RoleTests ==
    /\ [](VerifyDone /\ config.roles # <<>> =>
            /\ TestsCoverScope
            /\ cli.passed <=>
                 /\ cli.tool = Some("success")
                 /\ cli.replies[1].ok
                 /\ IsSome(cli.cmd.specific_role) =>
                      FirstNamed(config.roles, Unwrap(cli.cmd.specific_role)) # 0
                 /\ \A i \in 2..Len(cli.replies) : cli.replies[i].ok
            /\ cli.passed <=> Printed(<<"All prerequisites verified successfully!">>)
            /\ cli.passed <=> ~Printed(<<"Some prerequisites failed verification">>))
    /\ [][(/\ cli.pc \in {"verify_identity", "verify_roles", "verify_test"}
           /\ ~cli.passed) => ~cli'.passed]_vars

\* verify has tested the two definitions named dev of a file, the first
\* denied and the second assumed, and has failed
C17_Witness ==
    /\ VerifyDone
    /\ cli.cmd.specific_role = None
    /\ Len(config.roles) = 2
    /\ config.roles[1].name = config.roles[2].name
    /\ Len(cli.replies) = 3
    /\ cli.replies[1].ok
    /\ ~cli.replies[2].ok
    /\ cli.replies[3].ok
    /\ cli.tool = Some("success")
    /\ ~cli.passed

\* C18: verify changes neither the store it loaded nor the file, whatever
\* the checks come to: it calls no add_role, remove_role or save, and when it
\* returns the file still loads to the store in memory.
C18_VerifyReadOnly ==
    /\ [][(cli.cmd.kind = "verify" /\ cli.pc # "exit") =>
            /\ file' = file
            /\ cli.pc # "load" => config' = config
            /\ ret'.op \in {"load", "get_role"}]_vars
    /\ [](VerifyDone => load(home, file) = Ok(config))

\* verify has returned after a failed test on a store loaded from a file
\* that save() did not write
C18_Witness ==
    /\ VerifyDone
    /\ file = FileMetadata
    /\ Len(cli.replies) = 2
    /\ ~cli.replies[2].ok
    /\ ~cli.passed

\* A configure command has loaded the store, tested the role and returned
ConfigureDone ==
    /\ cli.cmd.kind = "configure"
    /\ cli.pc = "exit"
    /\ cli.probe # "none"

\* The role of the command line was added and save() was called on the
\* store: the last call is that save, its result is the command's result,
\* and after a successful one the file is the store.
AddedAndSaved ==
    /\ ret.op = "save"
    /\ get_role(config, cli.cmd.name) = Some(cli.cmd.role)
    /\ last[cli.cmd.name] = <<"added", cli.cmd.role>>
    /\ cli.exit = Some(ret.result[1])
    /\ ret.result[1].ok => file = Text(to_string_pretty(config))

\* Neither add_role nor save() was called: the last call is the load, and
\* the file still loads to the store in memory.
LeftAlone ==
    /\ ret.op = "load"
    /\ ret.result[1] = Ok(config)
    /\ load(home, file) = Ok(config)
    /\ \A n \in NameInputs : last[n] = <<"never">>

\* the answers that are y or yes once trimmed, in either case
YesAnswers == {"y", "Y", " YES ", "Yes"}

\* C19: configure adds and saves nothing before the test of the role has
\* returned.  After a test that returned true the role is added and saved
\* with no question asked; after one that returned false the question is
\* asked, and the role is added and saved exactly when the answer is y or
\* yes, trimmed and in either case; otherwise store and file stay as they
\* were.
C19_ProbeBeforePersist ==
    /\ [][(cli.cmd.kind = "configure" /\ cli.pc # "exit") =>
            /\ ret'.op \in {"add_role", "save"} =>
                 /\ Len(cli.replies) = 1
                 /\ calls = <<[api |-> "AssumeRole",
                               role_arn |-> cli.cmd.role.role_arn,
                               role_session_name |-> "aws-assume-role-test",
                               duration_seconds |-> 900]>>
            /\ cli.pc \in {"configure_test", "configure_prompt"} =>
                 config' = config /\ file' = file]_vars
    /\ [](ConfigureDone =>
            /\ cli.probe = "true" =>
                 /\ cli.answer = None
                 /\ ~Printed(<<"Save configuration anyway? (y/N): ">>)
                 /\ AddedAndSaved
            /\ cli.probe = "false" =>
                 /\ IsSome(cli.answer)
                 /\ Printed(<<"Save configuration anyway? (y/N): ">>)
                 /\ Unwrap(cli.answer) \in YesAnswers => AddedAndSaved
                 /\ Unwrap(cli.answer) \notin YesAnswers =>
                      /\ LeftAlone
                      /\ cli.exit = Some(Ok("unit"))
                      /\ Printed(<<"Role configuration cancelled">>))

\* a denied role has been saved over a file after the answer " YES "
C19_Witness ==
    /\ ConfigureDone
    /\ cli.probe = "false"
    /\ cli.answer = Some(" YES ")
    /\ origin = "file"
    /\ ret.op = "save"
    /\ ret.result[1].ok
    /\ file = Text(to_string_pretty(config))

\* C20: when the test of the role ends in an error, configure asks nothing,
\* adds the role and saves; the save done, it returns Ok and reports that it
\* could not verify the role.
C20_CouldNotVerify ==
    /\ [](ConfigureDone /\ cli.probe = "error" =>
            /\ cli.answer = None
            /\ ~Printed(<<"Save configuration anyway? (y/N): ">>)
            /\ Printed(<<"Error testing role">>)
            /\ AddedAndSaved
            /\ ret.result[1].ok =>
                 /\ cli.exit = Some(Ok("unit"))
                 /\ Printed(<<"Role configured", "(could not verify)", cli.cmd.name>>))
    /\ [][cli.probe = "error" => cli'.pc # "configure_prompt"]_vars

\* configure has returned Ok for a role whose test timed out
C20_Witness ==
    /\ ConfigureDone
    /\ cli.probe = "error"
    /\ cli.replies = <<SendError(<<"dispatch failure: ", "timeout">>)>>
    /\ cli.exit = Some(Ok("unit"))
    /\ file = Text(to_string_pretty(config))
    /\ Printed(<<"Role configured", "(could not verify)", cli.cmd.name>>)

\* An assume command has returned
AssumeDone == cli.cmd.kind = "assume" /\ cli.pc = "exit"

\* C21: `assume` of a name that is not in the store fails with CliError
\* with no provider request made; `assume` whose provider request fails,
\* fails with AwsError; either way nothing is printed, no child is started
\* and the exit code is not zero.
C21_AssumeFatal ==
    AssumeDone =>
        /\ (ret.op = "get_role" /\ FirstNamed(config.roles, cli.cmd.name) = 0) =>
             /\ cli.exit = Some(Err("CliError"))
             /\ calls = <<>>
             /\ out = <<>>
             /\ cli.credentials = None
             /\ cli.child = None
             /\ main(Unwrap(cli.exit)) # 0
        /\ (calls # <<>> /\ ~cli.replies[1].ok) =>
             /\ cli.exit = Some(Err("AwsError"))
             /\ Len(calls) = 1
             /\ out = <<>>
             /\ cli.credentials = None
             /\ cli.child = None
             /\ main(Unwrap(cli.exit)) # 0

\* `assume non-existent` has failed on a store that holds roles
C21_Witness ==
    /\ AssumeDone
    /\ cli.cmd.name = "non-existent"
    /\ config.roles # <<>>
    /\ ret = Call("get_role", <<"non-existent">>, None)
    /\ cli.exit = Some(Err("CliError"))
    /\ calls = <<>>

\* A list command has loaded the store and returned
ListDone ==
    /\ cli.cmd.kind = "list"
    /\ cli.pc = "exit"
    /\ cli.exit = Some(Ok("unit"))

\* A remove command has loaded the store and returned
RemoveDone ==
    /\ cli.cmd.kind = "remove"
    /\ cli.pc = "exit"
    /\ ret.op # "load"

C22_OneEntry ==
    /\ ListDone
    /\ out = << <<"Configured roles:">>,
                <<"- ", "dev", " (", "arn:aws:iam::123456789012:role/DevRole", ")">> >>

\* An assume command has printed its credentials as json
JsonDone ==
    /\ AssumeDone
    /\ cli.cmd.format = "json"
    /\ cli.cmd.exec = None
    /\ cli.exit = Some(Ok("unit"))

\* the member lines of the json output, between the braces
Members == SubSeq(out, 2, Len(out) - 1)

HasMember(key) == \E i \in DOMAIN Members : Members[i][1] = key

\* C23: the json output is an object that always has AccessKeyId and
\* SecretAccessKey, has SessionToken exactly when the record has a session
\* token and Expiration exactly when it has an expiration, and is well
\* formed: a comma after every member but the last, none after the last.
C23_AsStated ==
    JsonDone =>
        LET record == Unwrap(cli.credentials) IN
        /\ out[1] = <<"{">>
        /\ out[Len(out)] = <<"}">>
        /\ HasMember("AccessKeyId")
        /\ HasMember("SecretAccessKey")
        /\ HasMember("SessionToken") <=> IsSome(record.session_token)
        /\ HasMember("Expiration") <=> IsSome(record.expiration)
        /\ \A i \in DOMAIN Members :
             Members[i][3] = IF i < Len(Members) THEN "," ELSE ""

\* C23, what the program prints: the members are as claimed, and the object
\* is well formed exactly when the record has an expiration; without one the
\* last member is followed by a comma.
C23_JsonMembers ==
    JsonDone =>
        LET record == Unwrap(cli.credentials) IN
        /\ out[1] = <<"{">>
        /\ out[Len(out)] = <<"}">>
        /\ HasMember("AccessKeyId")
        /\ HasMember("SecretAccessKey")
        /\ HasMember("SessionToken") <=> IsSome(record.session_token)
        /\ HasMember("Expiration") <=> IsSome(record.expiration)
        /\ \A i \in DOMAIN Members :
             Members[i][3] = IF Members[i][1] = "Expiration" THEN "" ELSE ","
        /\ IsSome(record.expiration) => Members[Len(Members)][1] = "Expiration"

\* credentials with a session token and no expiration have been printed as
\* json
C23_Witness ==
    /\ JsonDone
    /\ IsSome(Unwrap(cli.credentials).session_token)
    /\ Unwrap(cli.credentials).expiration = None
    /\ Members[Len(Members)] =
         <<"SessionToken", Unwrap(Unwrap(cli.credentials).session_token), ",">>

\* The keys and string values of a JSON document
RECURSIVE Leaves(_)
Leaves(j) ==
    CASE j.t = "string" -> {j.v[1]}
      [] j.t = "array" -> UNION {Leaves(j.v[i]) : i \in DOMAIN j.v}
      [] j.t = "object" -> UNION {{j.v[i][1]} \cup Leaves(j.v[i][2]) : i \in DOMAIN j.v}
      [] OTHER -> {}

\* What a credential record is made of: its values as the provider issues
\* them, and the names under which they are held and printed
CredentialStrings ==
    {"ASIAEXAMPLE", "wJalrEXAMPLEKEY", "FwoGZXIvYXdzEXAMPLE",
     "access_key_id", "secret_access_key", "session_token", "expiration",
     "AccessKeyId", "SecretAccessKey", "SessionToken", "Expiration"}

\* C24: no credential ever reaches the config file.  assume, list and
\* verify never write the file, whatever they come to; save() is called by
\* configure, and by remove after remove_role returned true, and by nothing
\* else; and the file never holds a field or a value of a credential record.
C24_NeverPersisted ==
    /\ [][/\ file' # file =>
               /\ cli.cmd.kind \in {"configure", "remove"}
               /\ ret'.op = "save"
          /\ (cli.cmd.kind \in {"assume", "list", "verify"} /\ cli.pc # "exit") =>
               /\ file' = file
               /\ ret'.op # "save"
          /\ (ret'.op = "save" /\ ret.op # "save") =>
               \/ cli.cmd.kind = "configure"
               \/ /\ cli.cmd.kind = "remove"
                  /\ ret = Call("remove_role", <<cli.cmd.name>>, <<TRUE>>)]_vars
    /\ [](file.kind = "text" => Leaves(file.content) \cap CredentialStrings = {})

\* assume has printed credentials with a session token over a config file
\* written by an earlier configure
C24_Witness ==
    /\ AssumeDone
    /\ cli.exit = Some(Ok("unit"))
    /\ IsSome(cli.credentials)
    /\ IsSome(Unwrap(cli.credentials).session_token)
    /\ out # <<>>
    /\ file = Text(to_string_pretty(config))

\* The requests of `calls` that test a role, and the role each one tests:
\* the one request of configure, and every request of verify after the first
TestCalls ==
    IF cli.cmd.kind = "configure" THEN DOMAIN calls
    ELSE IF cli.cmd.kind = "verify" THEN DOMAIN calls \ {1}
    ELSE {}

Tested(i) == IF cli.cmd.kind = "configure" THEN cli.cmd.role ELSE Scope[i - 1]

\* Nothing of a credential record is held or printed
NoCredentials ==
    /\ cli.credentials = None
    /\ cli.child = None
    /\ \A i \in DOMAIN out : \A j \in DOMAIN out[i] :
         out[i][j] \notin {"ASIAEXAMPLE", "wJalrEXAMPLEKEY", "FwoGZXIvYXdzEXAMPLE"}

\* C25: a test of a role makes the request that assume would make for the
\* role, with the same ARN and the same session name, but for 900 seconds
\* whatever session_duration the role has, and keeps nothing of the
\* credentials that come back.
C25_AsStated ==
    /\ \A i \in TestCalls :
         calls[i] = [assume_role_request(Tested(i), None) EXCEPT !.duration_seconds = 900]
    /\ cli.cmd.kind \in {"configure", "verify"} => NoCredentials

\* C25 as amended: the same ARN, the session name "aws-assume-role-test" of
\* the test's own, 900 seconds whatever session_duration the role has, and
\* nothing kept of the credentials that come back.
C25_TestRequest ==
    /\ \A i \in TestCalls :
         /\ calls[i] = [assume_role_request(Tested(i), None) EXCEPT
                           !.duration_seconds = 900,
                           !.role_session_name = "aws-assume-role-test"]
         /\ calls[i].role_session_name
              # assume_role_request(Tested(i), None).role_session_name
    /\ cli.cmd.kind \in {"configure", "verify"} => NoCredentials

\* configure has tested a role with a session_duration of 7200 and the
\* provider has answered with credentials
C25_Witness ==
    /\ ConfigureDone
    /\ cli.cmd.role.session_duration = Some(7200)
    /\ Len(calls) = 1
    /\ calls[1].duration_seconds = 900
    /\ cli.replies[1].ok
    /\ IsSome(cli.replies[1].credentials)
    /\ cli.probe = "true"

\* The lines of verify that report a check, and the check each one reports
CheckOf(line) ==
    IF line[1] \in {"AWS CLI is installed and accessible",
                    "AWS CLI is not installed or not in PATH",
                    "Could not verify AWS CLI installation"} THEN "tool"
    ELSE IF line[1] \in {"AWS SDK initialized successfully",
                         "Failed to initialize AWS SDK"} THEN "client"
    ELSE IF line[1] \in {"Current AWS identity verified",
                         "Failed to verify current AWS identity"} THEN "identity"
    ELSE IF line[1] \in {"Can assume role", "Cannot assume role",
                         "Could not test role"} THEN "role"
    ELSE "other"

IsCheck(line) == CheckOf(line) # "other"

Reports == SelectSeq(out, IsCheck)

\* The checklist as far as the requests made so far take it
Checklist ==
    (IF IsSome(cli.tool) THEN <<"tool">> ELSE <<>>)
    \o (IF calls # <<>>
        THEN <<"client", "identity">> \o [i \in DOMAIN Tail(calls) |-> "role"]
        ELSE <<>>)

\* verify's requests and reports follow the checklist, one report a check
VerifyInOrder ==
    cli.cmd.kind = "verify" =>
        /\ calls # <<>> => /\ IsSome(cli.tool)
                           /\ calls[1] = verify_current_identity_request
        /\ Len(calls) <= 1 + Len(Scope)
        /\ \A i \in DOMAIN calls \ {1} : calls[i] = test_assume_role_request(Scope[i - 1])
        /\ Len(Reports) = Len(Checklist)
        /\ \A i \in DOMAIN Reports : CheckOf(Reports[i]) = Checklist[i]
        /\ \A i \in DOMAIN calls \ {1} : Reports[i + 2][2] = Scope[i - 1].name
        /\ VerifyDone => Len(calls) = 1 + Len(Scope)

\* every request is answered in the step that makes it, and no command
\* other than verify makes more than one
OnceEach ==
    /\ Len(cli.replies) = Len(calls)
    /\ cli.cmd.kind \in {"assume", "configure"} => Len(calls) <= 1
    /\ cli.cmd.kind \in {"list", "remove", "none"} => calls = <<>>
    /\ (cli.cmd.kind = "assume" /\ calls # <<>> /\ ~assume_role(
            Unwrap(get_role(config, cli.cmd.name)), cli.cmd.duration, cli.replies[1]).ok)
         => /\ cli.pc = "exit"
            /\ cli.exit = Some(Err("AwsError"))
            /\ out = <<>>

\* C26: verify makes its checks one after another in checklist order: the
\* tool probe, the client, get-caller-identity, then a test of each role in
\* scope in store order, each answered before the next is made and each
\* reported once in that order; and in every command a provider request is
\* made at most once: requests are only ever added one at a time within an
\* invocation, none is repeated after a failure.
C26_SequentialNoRetry ==
    /\ [](VerifyInOrder /\ OnceEach)
    /\ [][calls' # calls =>
            \/ calls' = <<>> /\ cli'.pc = "load"
            \/ /\ Len(calls') = Len(calls) + 1
               /\ SubSeq(calls', 1, Len(calls)) = calls
               /\ cli'.replies = Append(cli.replies, cli'.replies[Len(calls')])]_vars

\* verify has tested two roles one after the other although the identity
\* check and the first test failed
C26_Witness ==
    /\ VerifyDone
    /\ Len(calls) = 3
    /\ ~cli.replies[1].ok
    /\ ~cli.replies[2].ok
    /\ calls[2].role_arn # calls[3].role_arn

\* assume --exec has got credentials and has returned
ExecDone ==
    /\ AssumeDone
    /\ IsSome(cli.cmd.exec)
    /\ IsSome(cli.credentials)

\* C28: in `assume --exec` a command with no word in it (empty or white
\* space only) gives CliError with no child started, a child that exits with
\* a status other than zero gives CliError, and the command succeeds only
\* when a child was started and exited with status zero; in every case
\* nothing is printed.
C28_ExecErrors ==
    ExecDone =>
        LET command == Unwrap(cli.cmd.exec) IN
        /\ out = <<>>
        /\ (\A i \in DOMAIN command : command[i] = " ") =>
               /\ cli.exit = Some(Err("CliError"))
               /\ cli.child = None
        /\ (cli.child # None /\ Unwrap(cli.child).status # "exit 0") =>
               cli.exit = Some(Err("CliError"))
        /\ cli.exit = Some(Ok("unit")) <=>
               (cli.child # None /\ Unwrap(cli.child).status = "exit 0")
        /\ cli.exit \in {Some(Ok("unit")), Some(Err("CliError"))}
        /\ main(Unwrap(cli.exit)) = 0 <=>
               (cli.child # None /\ Unwrap(cli.child).status = "exit 0")

\* the child of `assume --exec` was started and exited with status 1
C28_Witness ==
    /\ ExecDone
    /\ cli.child # None
    /\ Unwrap(cli.child).status = "exit 1"
    /\ cli.exit = Some(Err("CliError"))

\* `assume --exec` of a command of white space alone has failed
C28_BlankCommand ==
    /\ ExecDone
    /\ cli.cmd.exec = Some(Blank)
    /\ cli.exit = Some(Err("CliError"))

\* `assume --exec` of the empty command has failed
C28_EmptyCommand ==
    /\ ExecDone
    /\ cli.cmd.exec = Some(<<>>)
    /\ cli.exit = Some(Err("CliError"))

\* C29: the AWS credential variables of the child of `assume --exec` come
\* from the credential record alone, whatever the caller's environment holds:
\* the key and the secret are the record's, the session token is the record's
\* when it has one and is not set in the child when it has none.
C29_AsStated ==
    (cli.cmd.kind = "assume" /\ cli.child # None) =>
        LET child == Unwrap(cli.child)
            credentials == Unwrap(cli.credentials)
        IN  /\ child.AWS_ACCESS_KEY_ID = Some(credentials.access_key_id)
            /\ child.AWS_SECRET_ACCESS_KEY = Some(credentials.secret_access_key)
            /\ child.AWS_SESSION_TOKEN = credentials.session_token

\* What holds of the child's variables: the key and the secret are the
\* record's, the session token is the record's when it has one, and the
\* caller's own, if any, when the record has none.
C29_ChildEnvironment ==
    (cli.cmd.kind = "assume" /\ cli.child # None) =>
        LET child == Unwrap(cli.child)
            credentials == Unwrap(cli.credentials)
        IN  /\ child.AWS_ACCESS_KEY_ID = Some(credentials.access_key_id)
            /\ child.AWS_SECRET_ACCESS_KEY = Some(credentials.secret_access_key)
            /\ IsSome(credentials.session_token) =>
                   child.AWS_SESSION_TOKEN = credentials.session_token
            /\ ~IsSome(credentials.session_token) =>
                   child.AWS_SESSION_TOKEN = cli.cmd.env.AWS_SESSION_TOKEN

\* a child runs with the new key and secret and the session token of the
\* caller's earlier session, the record having no token
C29_Witness ==
    /\ cli.cmd.kind = "assume"
    /\ cli.child # None
    /\ Unwrap(cli.credentials).session_token = None
    /\ cli.cmd.env = StaleEnv
    /\ Unwrap(cli.child).AWS_ACCESS_KEY_ID = Some("ASIAEXAMPLE")
    /\ Unwrap(cli.child).AWS_SESSION_TOKEN = Some("staletoken")

\* The first definition named n, if there is one
FirstOf(roles, n) ==
    IF FirstNamed(roles, n) = 0 THEN None ELSE Some(roles[FirstNamed(roles, n)])

\* The definition named n that follows the first one, if there is one
NextOf(roles, n) ==
    LET i == FirstNamed(roles, n)
        later == {j \in DOMAIN roles : j > i /\ roles[j].name = n}
    IN  IF i = 0 \/ later = {} THEN None
        ELSE Some(roles[CHOOSE j \in later : \A k \in later : j <= k])

\* C30: get_role and remove_role agree on every store, one loaded from a
\* file with several definitions of a name included: get_role(n) returns the
\* first definition named n; remove_role(n) returns true exactly when a
\* get_role(n) just before it returned a definition, and takes out that first
\* definition; a get_role(n) right after a true remove_role(n) returns the
\* next definition named n if one is left and nothing otherwise.
C30_LookupAndRemovalAgree ==
    /\ [](ret.op = "get_role" => ret.result = FirstOf(config.roles, ret.arg[1]))
    /\ [][(ret.op = "get_role" /\ ret'.op = "remove_role" /\ ret'.arg = ret.arg)
            => ret'.result[1] = IsSome(ret.result)]_vars
    /\ [][(ret'.op = "remove_role" /\ ret'.result[1])
            => /\ config'.roles = Without(config.roles,
                                          FirstNamed(config.roles, ret'.arg[1]))
               /\ FirstOf(config'.roles, ret'.arg[1]) = NextOf(config.roles, ret'.arg[1])
               /\ last'[ret'.arg[1]] = Removed(Count(config, ret'.arg[1]))]_vars
    /\ [][(ret.op = "remove_role" /\ ret.result[1]
           /\ ret'.op = "get_role" /\ ret'.arg = ret.arg)
            => /\ ret'.result = FirstOf(config.roles, ret.arg[1])
               /\ IsSome(ret'.result) <=> last[ret.arg[1]][2] > 1]_vars

\* after one of two definitions of "dev" read from a file was removed,
\* get_role("dev") returns the other one, the second of the file
C30_Witness ==
    /\ origin = "file"
    /\ ret.op = "get_role"
    /\ ret.arg = <<"dev">>
    /\ last["dev"] = Removed(2)
    /\ IsSome(ret.result)
    /\ Unwrap(ret.result).role_arn = "arn:aws:iam::123456789012:role/TestRole2"
    /\ Len(config.roles) = 1

\* The step in which the first process's save returns Ok, and the one in
\* which the second process's does
SavedOk ==
    /\ cli.pc \in {"configure_save", "remove_save"}
    /\ cli'.pc = "exit"
    /\ cli'.exit = Some(Ok("unit"))

PeerSavedOk ==
    /\ peer.pc = "write"
    /\ peer'.pc = "exit"
    /\ peer'.exit = Some(Ok("unit"))

\* C27: of two invocations that load, add or remove a role and save with
\* no locking, the one whose save is completed last leaves the file as
\* exactly its own full store.
C27_AsStated ==
    [][/\ SavedOk => file' = Text(to_string_pretty(config))
       /\ PeerSavedOk => file' = Text(to_string_pretty(peer.config))]_vars

\* C27 as amended: nothing but a save changes the file and no save merges:
\* a save that no other save comes into leaves the file as exactly the full
\* store of its process, whatever the other process has saved before; a save
\* whose write comes after another process wrote a longer text into the
\* truncated file leaves text that does not parse, and a load that comes
\* between the truncation and the write fails with ConfigError.
C27_WholesaleOverwrite ==
    /\ [][SavedOk => file' = Text(to_string_pretty(config))]_vars
    /\ [][PeerSavedOk =>
            IF file = Text(JInvalid)
            THEN file' = Text(to_string_pretty(peer.config))
            ELSE /\ file = Text(to_string_pretty(config))
                 /\ file' \in {Text(to_string_pretty(peer.config)), Text(JInvalid)}
                 /\ file' = Text(JInvalid) <=>
                      text_len(file.content, 0)
                          > text_len(to_string_pretty(peer.config), 0)]_vars
    /\ [][file' # file =>
            \/ cli.pc \in {"configure_save", "remove_save"} /\ cli'.pc = "exit"
            \/ peer.pc \in {"save", "write"} /\ peer'.pc # peer.pc]_vars
    /\ [][(cli.pc = "load" /\ cli'.pc # "load") =>
            IF file = Text(JInvalid)
            THEN /\ peer.pc \in {"write", "exit"}
                 /\ cli'.pc = "exit"
                 /\ cli'.exit = Some(Err("ConfigError"))
            ELSE cli'.pc # "exit"]_vars

\* both processes loaded the file with "dev" in it before either saved; the
\* second removed "dev" and saved, then the first added "prod" and saved:
\* both report success and "dev" is back in the file
C27_Witness ==
    /\ cli.pc = "exit"
    /\ cli.cmd = Configure(RaceProd)
    /\ cli.exit = Some(Ok("unit"))
    /\ ret.op = "save"
    /\ last["dev"] = Never
    /\ peer.pc = "exit"
    /\ peer.cmd = Remove("dev")
    /\ peer.out = <<"Role removed successfully", "dev">>
    /\ position(peer.config.roles, "dev") = 0
    /\ file = Text(to_string_pretty(config))
    /\ position(config.roles, "dev") # 0

\* the first process has read the file between the truncation and the write
\* of the second one's save
C27_LoadFailed ==
    /\ cli.pc = "exit"
    /\ ret.op = "load"
    /\ cli.exit = Some(Err("ConfigError"))
    /\ peer.pc = "write"

\* the second process's save has returned Ok and the file does not parse:
\* its text was written over the longer text of the first process's save
C27_TornFile ==
    /\ peer.pc = "exit"
    /\ peer.exit = Some(Ok("unit"))
    /\ peer.out = <<"Role removed successfully", "dev">>
    /\ cli.pc = "exit"
    /\ cli.exit = Some(Ok("unit"))
    /\ ret.op = "save"
    /\ file = Text(JInvalid)

====
